---- MODULE Spec2Model ----
(***************************************************************************)
(* State-machine model of trlcd_libusb.c: the USB LCD compositor.          *)
(*                                                                         *)
(* Spec      main() from start-up to exit with the robust 512-byte packet  *)
(*           sender (out512_retry) and its recovery ladder, against a      *)
(*           device whose every libusb call may succeed or fail.           *)
(* SpecApng  the chunk loop of apng_load_precompose on an arbitrary chunk  *)
(*           stream, with the 32-bit arithmetic of the clamp.              *)
(***************************************************************************)
EXTENDS Integers, Sequences, FiniteSets, TLC

(***************************************************************************)
(* Program constants                                                       *)
(***************************************************************************)
PACK == 512
PanelW == 240
PanelH == 320
FRAME_LEN == PanelW * PanelH * 2
MaxAttempts == 4
ReopenTries == 10

\* libusb return codes (libusb.h), as used by the source
LIBUSB_SUCCESS == 0
LIBUSB_ERROR_IO == -1
LIBUSB_ERROR_NO_DEVICE == -4
LIBUSB_ERROR_NOT_FOUND == -5
LIBUSB_ERROR_BUSY == -6
LIBUSB_ERROR_TIMEOUT == -7
LIBUSB_ERROR_PIPE == -9
LIBUSB_ERROR_OTHER == -99
LIBUSB_TRANSFER_TYPE_BULK == 2
LIBUSB_TRANSFER_TYPE_INTERRUPT == 3

(***************************************************************************)
(* Bounds of the model                                                     *)
(***************************************************************************)
FramePackets == 2   \* payload packets per frame explored under fault injection
MaxFrames == 2      \* ticks of the main loop explored
MaxOpens == 3       \* times the device can be opened in one run
MaxFaultyPackets == 1   \* packets of one run for which some send attempt fails
ShortLen == 100     \* length of a short (partial) transfer
MaxCanvas == 1      \* largest canvas width and height of the APNG files explored
MaxChunks == 4      \* chunks read from one APNG file
MaxTable == 2       \* frames of an animation with freely chosen delays
MaxLongRun == 66    \* frames of an animation whose frames all have the longest delay
PickLongRun == 131  \* frames of the longest animation handed to apng_pick_frame
MaxCycles == 3      \* whole cycles of the animation contained in an elapsed time
MaxSide == 2        \* width and height of the canvas whose pixels are followed
MaxComposed == 2    \* frames composed on that canvas
MaxEps == 3         \* endpoints of a descriptor handed to the endpoint discovery alone
MaxPercent == 150   \* largest fb_scale_percent of the contiguous range explored
MaxTexts == 2       \* text items of a layout
MaxLayers == 2      \* image layers of a layout

VARIABLES
    \* ---- main() and its configuration
    pc,            \* position of main(): start, assets, usb, tick, hdr, data, tx_done, exited
    layout,        \* the loaded Layout fields main uses: [iface, fps, once]
    frame_len,     \* payload bytes per frame
    frame_idx,     \* frames completed
    off,           \* payload offset of the packet being sent
    g_stop,        \* volatile flag set by the signal handler
    ctx, h, iface, ep_out,   \* the device session (0 = NULL)
    exit_code,     \* process exit status (-1 while running)
    err,           \* diagnostics written to stderr
    printed,       \* "Frame sent." written to stdout
    \* ---- out512_retry activation
    rpc,           \* idle, attempt, recover, reopen, ret
    attempt,       \* loop counter of out512_retry
    tries,         \* loop counter of usb_full_reopen
    ret,           \* value returned by out512_retry
    \* ---- the device and the library (environment)
    openHandles,   \* handles opened and not closed
    nOpens,        \* device handles that became the session's handle so far
    claims,        \* <<handle, interface>> pairs claimed
    disc,          \* result of the latest successful endpoint discovery
    faults,        \* packets that needed recovery so far
    \* ---- history of the run (observation only)
    intRes, bulkRes,   \* results of the transfers of the attempt just made (until recovery starts)
    nInt,              \* interrupt transfers issued for the current packet
    xferArgs,          \* handle and endpoint passed to the transfers of that attempt
    steps,             \* recovery steps performed for the current packet
    calls,             \* libusb calls of the latest recovery step, in order of first use
    sess0,             \* session at entry of out512_retry
    wire,              \* packets submitted, consecutive repeats merged
    acked,             \* packets reported sent (out512_retry returned 0)
    failed,            \* a send failure was surfaced to main
    xfersAfterFail,    \* transfers issued after a surfaced failure
    startedAfterStop,  \* frames started while g_stop was already set
    stopSeen,          \* the loop was left by the g_stop check
    released,          \* <<handle, interface>> released at shutdown, or <<>>
    \* ---- apng_load_precompose
    aPc,           \* idle, load, chunks, finish, done, used, crashed
    aRes,          \* return value (2 before the return)
    nChunks,       \* chunks consumed
    ihdr_set, canvas_w, canvas_h, saw_acTL,
    acTL_plays,    \* the play count of the last acTL chunk (line 766)
    cur,           \* FrameBuild: in_use, w, h, x, y, delay_num, delay_den, dispose_op,
                   \* blend_op, idata (idata.size)
    is_apng,       \* A->is_apng
    bg,            \* what main makes of the background: none (also when the static
                   \* decode ends the run), animated, static, failed
    chunk,         \* type and length of the chunk read last (observation only)
    family,        \* the files explored: "placed" (frames anywhere), "plain" (see PlainFcTL)
                   \* or "resized" (plain, with canvases of several sizes)
    canvasDim,     \* <<w, h>> the canvas buffers were allocated with, <<>> before
    num_frames,
    wrote,         \* cells <<dx, dy>> the blend loop of the latest finalize wrote
    cleared,       \* cells <<dx, dy>> the BACKGROUND disposal of the latest finalize zeroed
    wroteOn,       \* <<canvas_w, canvas_h>> in force at the latest finalize, <<>> before
    heap,          \* "intact", or "damaged" once a finalize wrote or read outside a buffer
    idat_data,     \* an IDAT chunk with data was read (what stbi_load has to decode)
    \* ---- single functions: the stored animation and apng_pick_frame
    A,             \* ApngAnim: [num_frames, total_ms, delay_ms, plays]
    wraps,         \* times the 32-bit accumulator total_ms wrapped (observation only)
    lastDelay,     \* [num, den, ms] of the delay stored last (observation only)
    pickIn,        \* arguments of the latest apng_pick_frame call
    pickOut,       \* its result [idx, rem]
    \* ---- single functions: the composition of one frame on the canvas
    rotate180_all, \* argument of apng_load_precompose
    canvas,        \* the composition canvas, pixel i = row * canvas_w + column
    canvas_prev,   \* the snapshot restored by dispose PREVIOUS
    frame_copy,    \* the frame stored last in A->frame_rgba
    frame_rgba,    \* A->frame_rgba: the buffers of the stored frames, in order
    entry,         \* the canvas as the latest finalize found it (observation only)
    comp,          \* the latest finalize: its fcTL fields and source pixels (observation only)
    \* ---- single functions: endpoint discovery on a given descriptor
    probe,         \* the endpoints of the descriptor in scan order, and want_iface
    picked,        \* result of pick_iface_and_out_ep on it
    \* ---- single functions: geometry, pixels and frame finalization
    call,          \* the function applied and its arguments
    result,        \* what it returned or stored
    \* ---- main() from the assets to the ticks, the sender reduced to its return code
    setup,         \* the files and the layout: [bg, imgs, n_overlays, n_texts, loop]
    tpc,           \* position of main()
    li,            \* the loop index i of the layer loops
    imgA,          \* imgA[i].loaded of the image layers
    fb,            \* the working canvas of the tick: [state, frees]
    rgb565,        \* the packed pixel buffer of the tick: [state, frees]
    ops,           \* what the current tick did so far, in order
    run            \* [opened, packets, ticks, toff, code, at, misuse, leaked]

usbVars == <<pc, layout, frame_len, frame_idx, off, g_stop, ctx, h, iface, ep_out,
             exit_code, err, printed, rpc, attempt, tries, ret,
             openHandles, nOpens, claims, disc, faults,
             intRes, bulkRes, nInt, xferArgs, steps, calls, sess0,
             wire, acked, failed, xfersAfterFail, startedAfterStop, stopSeen, released>>
apngVars == <<aPc, aRes, nChunks, ihdr_set, canvas_w, canvas_h, saw_acTL, acTL_plays, cur,
              is_apng, bg, chunk, family, canvasDim, num_frames, wrote, cleared, wroteOn,
              heap, idat_data>>
animVars == <<A, wraps, lastDelay>>
pickVars == <<pickIn, pickOut>>
pixVars == <<rotate180_all, canvas, canvas_prev, frame_copy, frame_rgba, entry, comp>>
probeVars == <<probe, picked>>
callVars == <<call, result>>
tickVars == <<setup, tpc, li, imgA, fb, rgb565, ops, run>>
unitVars == <<animVars, pickVars, pixVars, probeVars, callVars, tickVars>>
\* what the chunk loop leaves alone besides the animation it builds
loaderRest == <<wraps, lastDelay, pickVars, pixVars, probeVars, callVars, tickVars>>
vars == <<usbVars, apngVars, unitVars>>

(***************************************************************************)
(* Endpoint discovery: pick_iface_and_out_ep                               *)
(*                                                                         *)
(* A configuration descriptor is [rc, ifs]: rc is the result of            *)
(* libusb_get_active_config_descriptor, ifs the interfaces, each a         *)
(* sequence of alt-settings [num, eps], each endpoint [addr, attr].        *)
(***************************************************************************)
EpsOfAlt(alt) ==
    [k \in 1..Len(alt.eps) |->
        [num |-> alt.num, addr |-> alt.eps[k].addr, attr |-> alt.eps[k].attr]]

RECURSIVE EpsOfAlts(_, _)
EpsOfAlts(alts, a) ==
    IF a > Len(alts) THEN <<>> ELSE EpsOfAlt(alts[a]) \o EpsOfAlts(alts, a + 1)

\* the endpoints in scan order (interface, alt-setting, endpoint); interface
\* index i (0-based) is skipped when another one is requested
RECURSIVE EpsInScanOrder(_, _, _)
EpsInScanOrder(ifs, i, want_iface) ==
    IF i > Len(ifs) THEN <<>>
    ELSE (IF want_iface # -1 /\ (i - 1) # want_iface THEN <<>> ELSE EpsOfAlts(ifs[i], 1))
         \o EpsInScanOrder(ifs, i + 1, want_iface)

IsOut(addr) == (addr \div 128) % 2 = 0      \* (addr & 0x80) == 0
EpType(attr) == attr % 4                    \* bmAttributes & 0x3

RECURSIVE ScanEps_FirstOut(_, _, _, _)
ScanEps_FirstOut(eps, k, ifc, ep) ==
    IF k > Len(eps) THEN [iface |-> ifc, ep |-> ep]
    ELSE LET e == eps[k] IN
         IF IsOut(e.addr) /\ EpType(e.attr) \in {LIBUSB_TRANSFER_TYPE_INTERRUPT,
                                                 LIBUSB_TRANSFER_TYPE_BULK}
         THEN [iface |-> e.num, ep |-> e.addr]
         ELSE ScanEps_FirstOut(eps, k + 1, ifc, ep)

\* lines 1091-1096: the endpoints in scan order; an OUT interrupt endpoint ends the scan,
\* an OUT bulk endpoint is noted while *ep_out is still 0
RECURSIVE ScanEps(_, _, _, _)
ScanEps(eps, k, ifc, ep) ==
    IF k > Len(eps) THEN [iface |-> ifc, ep |-> ep]
    ELSE LET e == eps[k] IN
         IF IsOut(e.addr) /\ EpType(e.attr) = LIBUSB_TRANSFER_TYPE_INTERRUPT
         THEN [iface |-> e.num, ep |-> e.addr]
         ELSE IF IsOut(e.addr) /\ EpType(e.attr) = LIBUSB_TRANSFER_TYPE_BULK /\ ep = 0
         THEN ScanEps(eps, k + 1, e.num, e.addr)
         ELSE ScanEps(eps, k + 1, ifc, ep)

\* result [rc, iface, ep]: iface0/ep0 are the caller's values, left alone when
\* the descriptor cannot be read
pick_iface_and_out_ep(cfg, want_iface, iface0, ep0) ==
    IF cfg.rc # 0 THEN [rc |-> cfg.rc, iface |-> iface0, ep |-> ep0]
    ELSE LET r == ScanEps(EpsInScanOrder(cfg.ifs, 1, want_iface), 1, -1, 0) IN
         [rc |-> IF r.iface < 0 \/ r.ep = 0 THEN LIBUSB_ERROR_OTHER ELSE 0,
          iface |-> r.iface, ep |-> r.ep]

\* descriptors the device may present
CfgInterrupt ==
    [rc |-> 0, ifs |-> << << [num |-> 0, eps |-> << [addr |-> 129, attr |-> 3],
                                                    [addr |-> 1, attr |-> 3] >>] >> >>]
CfgBulkFirst ==
    [rc |-> 0, ifs |-> << << [num |-> 0, eps |-> << [addr |-> 2, attr |-> 2] >>] >>,
                          << [num |-> 1, eps |-> << [addr |-> 131, attr |-> 3],
                                                    [addr |-> 3, attr |-> 3] >>] >> >>]
CfgInOnly ==
    [rc |-> 0, ifs |-> << << [num |-> 0, eps |-> << [addr |-> 129, attr |-> 3] >>] >> >>]
CfgUnreadable == [rc |-> LIBUSB_ERROR_NOT_FOUND, ifs |-> <<>>]
DeviceConfigs == {CfgInterrupt, CfgBulkFirst, CfgInOnly, CfgUnreadable}

(***************************************************************************)
(* One send attempt of out512_retry                                        *)
(***************************************************************************)
NoXfer == [r |-> 1, n |-> -1]          \* no transfer issued
NoArgs == [h |-> 0, ep |-> 0]
\* what libusb_interrupt_transfer can report
XferOutcomes ==
    { [r |-> LIBUSB_SUCCESS, n |-> PACK],
      [r |-> LIBUSB_SUCCESS, n |-> ShortLen],
      [r |-> LIBUSB_ERROR_PIPE, n |-> 0],
      [r |-> LIBUSB_ERROR_TIMEOUT, n |-> 0],
      [r |-> LIBUSB_ERROR_NO_DEVICE, n |-> 0] }
\* what libusb_bulk_transfer can report
BulkOutcomes ==
    { [r |-> LIBUSB_SUCCESS, n |-> PACK],
      [r |-> LIBUSB_SUCCESS, n |-> ShortLen],
      [r |-> LIBUSB_ERROR_PIPE, n |-> 0] }

\* line 1130: the bulk transfer is tried after a stalled or timed-out interrupt transfer
BulkFallback_Always(r) == r # LIBUSB_SUCCESS
BulkFallback(r) == r = LIBUSB_ERROR_PIPE \/ r = LIBUSB_ERROR_TIMEOUT

\* line 1131: the attempt succeeded
AttemptOk_AnyLength(x) == x.r = 0
AttemptOk(x) == x.r = 0 /\ x.n = PACK

(***************************************************************************)
(* Recovery steps                                                          *)
(***************************************************************************)
Range(f) == {f[k] : k \in DOMAIN f}
AddCall(cs, c) == IF c \in Range(cs) THEN cs ELSE Append(cs, c)

\* lines 1132-1134: the recovery step taken after failed attempt number `a` (0-based)
LadderStep_ResetFirst(a) == IF a = 0 THEN "reset" ELSE IF a = 1 THEN "clear_halt" ELSE "reopen"
LadderStep_NoReset(a) == IF a = 0 THEN "clear_halt" ELSE "reopen"
LadderStep(a) == IF a = 0 THEN "clear_halt" ELSE IF a = 1 THEN "reset" ELSE "reopen"

\* usb_reset_and_reclaim on session values (iface0, ep0): rrc is the result of
\* libusb_reset_device, cfg the descriptor read afterwards.  claim tells whether
\* ensure_claim is reached.
usb_reset_and_reclaim_NoWriteBack(iface0, ep0, want_iface, rrc, cfg) ==
    IF rrc # 0 THEN [rc |-> rrc, iface |-> iface0, ep |-> ep0, claim |-> FALSE,
                     calls |-> <<"reset">>]
    ELSE LET p == pick_iface_and_out_ep(cfg, want_iface, iface0, ep0) IN
         IF p.rc # 0 THEN [rc |-> p.rc, iface |-> iface0, ep |-> ep0, claim |-> FALSE,
                           calls |-> <<"reset", "pick">>]
         ELSE [rc |-> 0, iface |-> iface0, ep |-> ep0, claim |-> TRUE,
               calls |-> <<"reset", "pick", "claim">>]
usb_reset_and_reclaim(iface0, ep0, want_iface, rrc, cfg) ==
    IF rrc # 0 THEN [rc |-> rrc, iface |-> iface0, ep |-> ep0, claim |-> FALSE,
                     calls |-> <<"reset">>]
    ELSE LET p == pick_iface_and_out_ep(cfg, want_iface, iface0, ep0) IN
         IF p.rc # 0 THEN [rc |-> p.rc, iface |-> iface0, ep |-> ep0, claim |-> FALSE,
                           calls |-> <<"reset", "pick">>]
         ELSE [rc |-> 0, iface |-> p.iface, ep |-> p.ep, claim |-> TRUE,
               calls |-> <<"reset", "pick", "claim">>]

\* the value of each `return` of main that ends the run
ExitStatus(kind) ==
    CASE kind = "config" -> 1        \* line 1162
      [] kind = "asset" -> 1         \* line 1188
      [] kind = "stbi_load" -> 1     \* line 640
      [] kind = "usb_init" -> 1      \* line 1213
      [] kind = "not_found" -> 1     \* line 1215
      [] kind = "no_endpoint" -> 1   \* line 1219
      [] kind = "claim" -> 1         \* line 1106
      [] OTHER -> 0                  \* line 1323

\* process exit from inside a library wrapper or from main
Exit(code, msg) ==
    /\ pc' = "exited"
    /\ exit_code' = code
    /\ err' = IF msg = "" THEN err ELSE err \cup {msg}

\* bottom of the loop body of out512_retry: attempt++ and the loop test;
\* falling out of the loop returns LIBUSB_ERROR_IO (line 1136)
NextAttempt_FiveAttempts ==
    /\ attempt' = attempt + 1
    /\ IF attempt + 1 < MaxAttempts + 1
       THEN rpc' = "attempt" /\ ret' = ret
       ELSE rpc' = "ret" /\ ret' = LIBUSB_ERROR_IO
NextAttempt ==
    /\ attempt' = attempt + 1
    /\ IF attempt + 1 < MaxAttempts
       THEN rpc' = "attempt" /\ ret' = ret
       ELSE rpc' = "ret" /\ ret' = LIBUSB_ERROR_IO

CurPkt == IF pc = "hdr" THEN -1 ELSE off
CurEntry == <<frame_idx, CurPkt>>

(***************************************************************************)
(* out512_retry                                                            *)
(***************************************************************************)
mainFrame == <<layout, frame_len, frame_idx, off, g_stop>>
session == <<ctx, h, iface, ep_out>>
device == <<openHandles, nOpens, claims, disc, faults>>
packetHist == <<intRes, bulkRes, nInt, xferArgs, steps, calls, sess0>>
runHist == <<wire, acked, failed, xfersAfterFail, startedAfterStop, stopSeen, released>>
activation == <<rpc, attempt, tries, ret>>
process == <<pc, exit_code, err, printed>>

\* lines 1129-1131: interrupt transfer, bulk fallback, success test
Out512Attempt ==
    /\ rpc = "attempt"
    /\ \E i \in XferOutcomes :
       \E b \in (IF BulkFallback(i.r) THEN BulkOutcomes ELSE {NoXfer}) :
         LET last == IF BulkFallback(i.r) THEN b ELSE i IN
         \* a first failure makes the packet one of the faulty packets of the run
         /\ ~AttemptOk(last) /\ attempt = 0 => faults < MaxFaultyPackets
         /\ faults' = faults + (IF ~AttemptOk(last) /\ attempt = 0 THEN 1 ELSE 0)
         /\ intRes' = i
         /\ bulkRes' = b
         /\ nInt' = nInt + 1
         /\ IF AttemptOk(last)
            THEN rpc' = "ret" /\ ret' = 0 /\ acked' = acked \cup {CurEntry}
            ELSE rpc' = "recover" /\ ret' = ret /\ acked' = acked
    /\ xferArgs' = [h |-> h, ep |-> ep_out]
    /\ wire' = IF wire # <<>> /\ wire[Len(wire)] = CurEntry THEN wire
               ELSE Append(wire, CurEntry)
    /\ xfersAfterFail' = xfersAfterFail + (IF failed THEN 1 ELSE 0)
    /\ UNCHANGED <<mainFrame, session, process, attempt, tries>>
    /\ UNCHANGED <<openHandles, nOpens, claims, disc>>
    /\ UNCHANGED <<steps, calls, sess0, failed, startedAfterStop, stopSeen, released>>
    /\ UNCHANGED <<apngVars, unitVars>>

\* line 1132 / 1108: usb_soft_recover, then the next attempt
UsbSoftRecover ==
    /\ rpc = "recover"
    /\ LadderStep(attempt) = "clear_halt"
    /\ steps' = Append(steps, "clear_halt")
    /\ calls' = <<"clear_halt">>
    /\ NextAttempt
    /\ UNCHANGED <<mainFrame, session, process, device, tries, runHist>>
    /\ intRes' = NoXfer /\ bulkRes' = NoXfer /\ xferArgs' = NoArgs
    /\ UNCHANGED <<nInt, sess0>>
    /\ UNCHANGED <<apngVars, unitVars>>

\* line 1133 / 1109-1112: usb_reset_and_reclaim (its result is discarded), then
\* the next attempt; ensure_claim exits the process when the claim fails
UsbResetAndReclaim ==
    /\ rpc = "recover"
    /\ LadderStep(attempt) = "reset"
    /\ \E rrc \in {LIBUSB_SUCCESS, LIBUSB_ERROR_NOT_FOUND} :
       \E cfg \in DeviceConfigs :
       \E crc \in {LIBUSB_SUCCESS, LIBUSB_ERROR_BUSY} :
         LET r == usb_reset_and_reclaim(iface, ep_out, layout.iface, rrc, cfg)
             p == pick_iface_and_out_ep(cfg, layout.iface, iface, ep_out) IN
         \* results that are never read are not enumerated twice
         /\ crc # 0 => r.claim
         /\ rrc # 0 => cfg = CfgUnreadable
         /\ steps' = Append(steps, "reset")
         /\ calls' = r.calls
         /\ iface' = r.iface
         /\ ep_out' = r.ep
         /\ disc' = IF r.rc = 0 THEN [iface |-> p.iface, ep |-> p.ep] ELSE disc
         /\ IF r.claim /\ crc # 0
            THEN /\ Exit(ExitStatus("claim"), "claim")
                 /\ rpc' = "idle"
                 /\ UNCHANGED <<claims, attempt, ret>>
            ELSE /\ claims' = IF r.claim THEN claims \cup {<<h, r.iface>>} ELSE claims
                 /\ NextAttempt
                 /\ UNCHANGED <<pc, exit_code, err>>
    /\ UNCHANGED <<mainFrame, ctx, h, printed, tries, openHandles, nOpens, faults, runHist>>
    /\ intRes' = NoXfer /\ bulkRes' = NoXfer /\ xferArgs' = NoArgs
    /\ UNCHANGED <<nInt, sess0>>
    /\ UNCHANGED <<apngVars, unitVars>>

\* line 1134 / 1114-1115: usb_full_reopen up to libusb_init
UsbFullReopenBegin ==
    /\ rpc = "recover"
    /\ LadderStep(attempt) = "reopen"
    /\ steps' = Append(steps, "reopen")
    /\ openHandles' = openHandles \ {h}
    /\ claims' = {c \in claims : c[1] # h}
    /\ h' = 0
    /\ calls' = (IF h # 0 THEN <<"close">> ELSE <<>>)
                \o (IF ctx # 0 THEN <<"exit">> ELSE <<>>) \o <<"init">>
    /\ \E irc \in {LIBUSB_SUCCESS, LIBUSB_ERROR_OTHER} :
         IF irc # 0
         THEN ctx' = 0 /\ rpc' = "ret" /\ ret' = irc /\ tries' = tries
         ELSE ctx' = 1 /\ rpc' = "reopen" /\ ret' = ret /\ tries' = 0
    /\ UNCHANGED <<mainFrame, iface, ep_out, process, attempt, nOpens, disc, faults, runHist>>
    /\ intRes' = NoXfer /\ bulkRes' = NoXfer /\ xferArgs' = NoArgs
    /\ UNCHANGED <<nInt, sess0>>
    /\ UNCHANGED <<apngVars, unitVars>>

\* lines 1116-1123: one pass of the re-enumeration loop of usb_full_reopen
UsbFullReopenTry ==
    /\ rpc = "reopen"
    /\ tries < ReopenTries
    /\ \E found \in BOOLEAN :
       \E cfg \in (IF found THEN DeviceConfigs ELSE {CfgUnreadable}) :
       \E crc \in (IF found /\ pick_iface_and_out_ep(cfg, layout.iface, iface, ep_out).rc = 0
                   THEN {LIBUSB_SUCCESS, LIBUSB_ERROR_BUSY} ELSE {LIBUSB_SUCCESS}) :
         LET p == pick_iface_and_out_ep(cfg, layout.iface, iface, ep_out)
             nh == nOpens + 1 IN
         \* the device comes back usable at most MaxOpens times in a run
         /\ found /\ p.rc = 0 => nOpens < MaxOpens
         /\ IF ~found
            THEN /\ calls' = AddCall(calls, "open")
                 /\ tries' = tries + 1
                 /\ UNCHANGED <<h, iface, ep_out, openHandles, nOpens, claims, disc,
                                attempt, rpc, ret, pc, exit_code, err>>
            ELSE /\ iface' = p.iface
                 /\ ep_out' = p.ep
                 /\ IF p.rc # 0
                    THEN /\ calls' = AddCall(AddCall(AddCall(calls, "open"), "pick"), "close")
                         /\ tries' = tries + 1
                         /\ UNCHANGED <<h, openHandles, nOpens, claims, disc, attempt, rpc,
                                        ret, pc, exit_code, err>>
                    ELSE /\ calls' = AddCall(AddCall(AddCall(calls, "open"), "pick"), "claim")
                         /\ nOpens' = nh
                         /\ h' = nh
                         /\ openHandles' = openHandles \cup {nh}
                         /\ disc' = [iface |-> p.iface, ep |-> p.ep]
                         /\ tries' = 0      \* the local is gone on return
                         /\ IF crc # 0
                            THEN /\ Exit(ExitStatus("claim"), "claim")
                                 /\ rpc' = "idle"
                                 /\ UNCHANGED <<claims, attempt, ret>>
                            ELSE /\ claims' = claims \cup {<<nh, p.iface>>}
                                 /\ NextAttempt
                                 /\ UNCHANGED <<pc, exit_code, err>>
    /\ UNCHANGED <<mainFrame, ctx, printed, faults, steps, runHist>>
    /\ UNCHANGED <<intRes, bulkRes, nInt, xferArgs, sess0>>
    /\ UNCHANGED <<apngVars, unitVars>>

\* line 1124 and the `if(rc) return rc` of line 1134
UsbFullReopenGiveUp ==
    /\ rpc = "reopen"
    /\ tries >= ReopenTries
    /\ rpc' = "ret"
    /\ ret' = LIBUSB_ERROR_NO_DEVICE
    /\ tries' = 0
    /\ UNCHANGED <<mainFrame, session, process, device, attempt, packetHist, runHist>>
    /\ UNCHANGED <<apngVars, unitVars>>

(***************************************************************************)
(* main                                                                    *)
(***************************************************************************)
\* configurations load_layout can produce (fields read by main's send loop)
Layouts ==
    { [iface |-> -1, fps |-> 0, once |-> 1],      \* layout_init defaults
      [iface |-> -1, fps |-> 30, once |-> 0],
      [iface |-> 0, fps |-> 30, once |-> 0],
      [iface |-> -1, fps |-> 2000, once |-> 0] }   \* atoi accepts any frame rate

period_ms(L) == IF L.fps > 0 THEN 1000 \div L.fps ELSE 0     \* line 1224

\* lines 1161-1162
LoadLayout ==
    /\ pc = "start"
    /\ \/ /\ Exit(ExitStatus("config"), "layout")
          /\ UNCHANGED layout
       \/ /\ \E L \in Layouts : layout' = L
          /\ pc' = "assets"
          /\ UNCHANGED <<exit_code, err>>
    /\ UNCHANGED <<frame_len, frame_idx, off, g_stop, printed>>
    /\ UNCHANGED <<session, device, packetHist, runHist, activation, apngVars, unitVars>>

\* lines 1171-1209: the background must load; an image layer that apng_load_precompose
\* fails on (st < 0) is skipped.  A file that is no animation (status 1), background
\* or image layer, goes to load_png_rgba_stb, which ends the process when stbi_load
\* cannot decode it (line 640)
LoadAssets ==
    /\ pc = "assets"
    /\ \/ /\ Exit(ExitStatus("asset"), "background")
       \/ /\ Exit(ExitStatus("stbi_load"), "stbi_load failed")
       \/ /\ pc' = "usb"
          /\ UNCHANGED <<exit_code, err>>
    /\ UNCHANGED <<mainFrame, printed>>
    /\ UNCHANGED <<session, device, packetHist, runHist, activation, apngVars, unitVars>>

\* lines 1212-1221: libusb_init, open by VID/PID, discovery, claim
UsbOpen ==
    /\ pc = "usb"
    /\ \E irc \in {LIBUSB_SUCCESS, LIBUSB_ERROR_OTHER} :
       \E found \in BOOLEAN :
       \E cfg \in DeviceConfigs :
       \E crc \in {LIBUSB_SUCCESS, LIBUSB_ERROR_BUSY} :
         LET p == pick_iface_and_out_ep(cfg, layout.iface, -1, 0) IN
         \* results that are never read are not enumerated twice
         /\ irc # 0 => ~found
         /\ ~found => cfg = CfgUnreadable
         /\ crc # 0 => found /\ p.rc = 0
         /\ IF irc # 0
            THEN /\ Exit(ExitStatus("usb_init"), "libusb_init")
                 /\ UNCHANGED <<session, device>>
            ELSE IF ~found
            THEN /\ Exit(ExitStatus("not_found"), "not_found")
                 /\ UNCHANGED <<session, device>>
            ELSE IF p.rc # 0
            THEN /\ Exit(ExitStatus("no_endpoint"), "no_endpoint")
                 /\ UNCHANGED <<session, openHandles, nOpens, claims, disc, faults>>
            ELSE /\ ctx' = 1
                 /\ h' = nOpens + 1
                 /\ nOpens' = nOpens + 1
                 /\ openHandles' = openHandles \cup {nOpens + 1}
                 /\ iface' = p.iface
                 /\ ep_out' = p.ep
                 /\ disc' = [iface |-> p.iface, ep |-> p.ep]
                 /\ UNCHANGED faults
                 /\ IF crc # 0
                    THEN Exit(ExitStatus("claim"), "claim") /\ UNCHANGED claims
                    ELSE /\ claims' = claims \cup {<<nOpens + 1, p.iface>>}
                         /\ pc' = "tick"
                         /\ UNCHANGED <<exit_code, err>>
    /\ UNCHANGED <<mainFrame, printed>>
    /\ UNCHANGED <<packetHist, runHist, activation, apngVars, unitVars>>

\* entry of out512_retry (line 1127-1128)
Enter ==
    /\ rpc' = "attempt"
    /\ attempt' = 0
    /\ tries' = 0
    /\ ret' = 0
    /\ intRes' = NoXfer
    /\ bulkRes' = NoXfer
    /\ nInt' = 0
    /\ steps' = <<>>
    /\ calls' = <<>>
    /\ sess0' = [h |-> h, iface |-> iface, ep |-> ep_out]
    /\ xferArgs' = NoArgs

\* lines 1230-1284: start of a tick: render the frame, then send the header
Tick ==
    /\ pc = "tick"
    /\ frame_idx < MaxFrames
    /\ pc' = "hdr"
    /\ startedAfterStop' = startedAfterStop + (IF g_stop THEN 1 ELSE 0)
    /\ Enter
    /\ UNCHANGED <<mainFrame, session, device, exit_code, err, printed>>
    /\ UNCHANGED <<wire, acked, failed, xfersAfterFail, stopSeen, released>>
    /\ UNCHANGED <<apngVars, unitVars>>

\* lines 1285, 1291: `if(rc)` after a send
SendFailed_Never(rc) == FALSE
SendFailed(rc) == rc # 0

\* line 1287: the loop increment `off+=PACK`
NextOffset_Skip(o) == o + 2 * PACK
NextOffset(o) == o + PACK

\* line 1285: the header send returned
HeaderReturn ==
    /\ pc = "hdr"
    /\ rpc = "ret"
    /\ IF SendFailed(ret)
       THEN /\ err' = err \cup {"header send failed"}
            /\ failed' = TRUE
            /\ pc' = "tx_done"
            /\ rpc' = "idle"
            /\ UNCHANGED <<off, attempt, tries, ret, packetHist>>
       ELSE /\ pc' = "data"
            /\ off' = 0
            /\ rpc' = "idle"
            /\ UNCHANGED <<err, failed, attempt, tries, ret, packetHist>>
    /\ UNCHANGED <<layout, frame_len, frame_idx, g_stop, session, device, exit_code,
                   printed>>
    /\ UNCHANGED <<wire, acked, xfersAfterFail, startedAfterStop, stopSeen, released>>
    /\ UNCHANGED <<apngVars, unitVars>>

\* lines 1287-1290: next payload packet
SendData ==
    /\ pc = "data"
    /\ rpc = "idle"
    /\ off < frame_len
    /\ Enter
    /\ UNCHANGED <<pc, mainFrame, session, device, exit_code, err, printed, runHist>>
    /\ UNCHANGED <<apngVars, unitVars>>

\* line 1291 and the loop increment of line 1287: a payload send returned
DataReturn ==
    /\ pc = "data"
    /\ rpc = "ret"
    /\ rpc' = "idle"
    /\ IF SendFailed(ret)
       THEN /\ err' = err \cup {"data send failed"}
            /\ failed' = TRUE
            /\ pc' = "tx_done"
            /\ UNCHANGED off
       ELSE /\ off' = NextOffset(off)
            /\ UNCHANGED <<err, failed, pc>>
    /\ UNCHANGED <<layout, frame_len, frame_idx, g_stop, session, device, exit_code,
                   printed, attempt, tries, ret, packetHist>>
    /\ UNCHANGED <<wire, acked, xfersAfterFail, startedAfterStop, stopSeen, released>>
    /\ UNCHANGED <<apngVars, unitVars>>

\* the loop is left by the g_stop test (line 1300)
StopCheck_Ignored(stop) == FALSE
StopCheck(stop) == stop

\* lines 1294-1307: all packets sent: pace, count the frame, test g_stop, loop test
FrameEnd ==
    /\ pc = "data"
    /\ rpc = "idle"
    /\ off >= frame_len
    /\ frame_idx' = frame_idx + 1
    /\ IF StopCheck(g_stop)
       THEN pc' = "tx_done" /\ stopSeen' = TRUE
       ELSE /\ stopSeen' = stopSeen
            /\ pc' = IF period_ms(layout) > 0 /\ layout.once = 0 THEN "tick" ELSE "tx_done"
    /\ UNCHANGED <<layout, frame_len, off, g_stop, session, device, exit_code, err,
                   printed, activation, packetHist>>
    /\ UNCHANGED <<wire, acked, failed, xfersAfterFail, startedAfterStop, released>>
    /\ UNCHANGED <<apngVars, unitVars>>

\* lines 1309-1323 (tx_done): release, close, exit the context, report, return 0;
\* libusb_close (line 1311) ends every claim still held on the handle
Shutdown ==
    /\ pc = "tx_done"
    /\ released' = IF h # 0 /\ iface >= 0 THEN <<h, iface>> ELSE <<>>
    /\ claims' = {c \in claims : c[1] # h}
    /\ openHandles' = openHandles \ {h}
    /\ ctx' = 0
    /\ printed' = TRUE
    /\ Exit(ExitStatus("done"), "")
    /\ UNCHANGED <<mainFrame, h, iface, ep_out, nOpens, disc, faults, activation, packetHist>>
    /\ UNCHANGED <<wire, acked, failed, xfersAfterFail, startedAfterStop, stopSeen>>
    /\ UNCHANGED <<apngVars, unitVars>>

\* lines 36-39: on_sigterm, at any moment while the process runs
OnSigterm ==
    /\ pc # "exited"
    /\ ~g_stop
    /\ g_stop' = TRUE
    /\ UNCHANGED <<pc, layout, frame_len, frame_idx, off, exit_code, err, printed>>
    /\ UNCHANGED <<session, device, packetHist, runHist, activation, apngVars, unitVars>>

(***************************************************************************)
(* Initial states                                                          *)
(***************************************************************************)
UsbInit ==
    /\ pc = "start"
    /\ layout = [iface |-> -1, fps |-> 0, once |-> 1]
    /\ frame_len = FramePackets * PACK
    /\ frame_idx = 0
    /\ off = 0
    /\ g_stop = FALSE
    /\ ctx = 0 /\ h = 0 /\ iface = -1 /\ ep_out = 0
    /\ exit_code = -1
    /\ err = {}
    /\ printed = FALSE
    /\ rpc = "idle" /\ attempt = 0 /\ tries = 0 /\ ret = 0
    /\ openHandles = {} /\ nOpens = 0 /\ claims = {}
    /\ disc = [iface |-> -1, ep |-> 0]
    /\ faults = 0
    /\ intRes = NoXfer /\ bulkRes = NoXfer /\ nInt = 0
    /\ xferArgs = NoArgs
    /\ steps = <<>> /\ calls = <<>>
    /\ sess0 = [h |-> 0, iface |-> -1, ep |-> 0]
    /\ wire = <<>> /\ acked = {}
    /\ failed = FALSE /\ xfersAfterFail = 0 /\ startedAfterStop = 0
    /\ stopSeen = FALSE /\ released = <<>>

NoFrame == [in_use |-> FALSE, w |-> 0, h |-> 0, x |-> 0, y |-> 0,
            delay_num |-> 0, delay_den |-> 0, dispose_op |-> 0, blend_op |-> 0, idata |-> 0]
NoChunk == [type |-> "none", dlen |-> 0]

\* line 719: memset(A,0,...) and the locals of lines 733-748
ApngLocals ==
    /\ aRes = 2
    /\ nChunks = 0
    /\ ihdr_set = FALSE /\ canvas_w = 0 /\ canvas_h = 0 /\ saw_acTL = FALSE
    /\ acTL_plays = 0
    /\ cur = NoFrame
    /\ is_apng = FALSE /\ bg = "none" /\ chunk = NoChunk
    /\ canvasDim = <<>>
    /\ num_frames = 0
    /\ wrote = {} /\ cleared = {} /\ wroteOn = <<>>
    /\ heap = "intact" /\ idat_data = FALSE

ApngIdle == aPc = "idle" /\ family = "placed" /\ ApngLocals

\* memset(A,0,...) of line 719: no frame stored
NoAnim == [num_frames |-> 0, total_ms |-> 0, delay_ms |-> <<>>, plays |-> 0]
NoDelay == [num |-> 0, den |-> 0, ms |-> 0]
\* k, e: the split base_ms = k * total_ms + e the call was drawn with (observation only)
NoPickIn == [called |-> FALSE, hi |-> 0, base_ms |-> 0, speed |-> 1, loop_mode |-> 0, loop_N |-> 0,
             k |-> 0, e |-> 0]
NoPickOut == [idx |-> 0, rem |-> 0]

NoComp == [state |-> "none"]
NoPixels ==
    /\ rotate180_all = FALSE
    /\ canvas = <<>> /\ canvas_prev = <<>> /\ frame_copy = <<>> /\ entry = <<>>
    /\ frame_rgba = <<>>
    /\ comp = NoComp

NoProbe ==
    /\ probe = [readable |-> TRUE, slots |-> <<>>, want_iface |-> -1]
    /\ picked = [called |-> FALSE]

NoCall == call = [fn |-> "none"] /\ result = [called |-> FALSE]

NoBuffer == [state |-> "none", frees |-> 0]
NoRun == [opened |-> FALSE, packets |-> 0, ticks |-> 0, toff |-> 0, code |-> -1,
          at |-> "none", misuse |-> FALSE, leaked |-> FALSE]
NoTick ==
    /\ setup = [bg |-> "png", imgs |-> <<>>, n_overlays |-> 0, n_texts |-> 0,
                loop |-> FALSE]
    /\ tpc = "idle" /\ li = 0 /\ imgA = <<>>
    /\ fb = NoBuffer /\ rgb565 = NoBuffer /\ ops = <<>> /\ run = NoRun

UnitIdle ==
    /\ A = NoAnim /\ wraps = 0 /\ lastDelay = NoDelay
    /\ pickIn = NoPickIn /\ pickOut = NoPickOut
    /\ NoPixels
    /\ NoProbe
    /\ NoCall /\ NoTick

Init == UsbInit /\ ApngIdle /\ UnitIdle

Next ==
    \/ LoadLayout
    \/ LoadAssets
    \/ UsbOpen
    \/ Tick
    \/ Out512Attempt
    \/ UsbSoftRecover
    \/ UsbResetAndReclaim
    \/ UsbFullReopenBegin
    \/ UsbFullReopenTry
    \/ UsbFullReopenGiveUp
    \/ HeaderReturn
    \/ SendData
    \/ DataReturn
    \/ FrameEnd
    \/ Shutdown
    \/ OnSigterm

Spec == Init /\ [][Next]_vars

\* the steps of the program itself: main is a single thread that runs until it
\* returns or exits, and every library call returns (each transfer within CL_TIMEOUT)
Program ==
    \/ LoadLayout \/ LoadAssets \/ UsbOpen \/ Tick
    \/ Out512Attempt \/ UsbSoftRecover \/ UsbResetAndReclaim
    \/ UsbFullReopenBegin \/ UsbFullReopenTry \/ UsbFullReopenGiveUp
    \/ HeaderReturn \/ SendData \/ DataReturn \/ FrameEnd \/ Shutdown
SpecLive == Init /\ [][Next]_vars /\ WF_vars(Program)

(***************************************************************************)
(* 32-bit unsigned arithmetic.  An `unsigned` is held as the integer with  *)
(* the same 32 bits (two's complement), so 0xFFFFFFFF is -1; sums and      *)
(* differences are formed on 16-bit halves and never leave 32 bits.        *)
(***************************************************************************)
Half == 2^16
Lo(v) == v % Half
Hi(v) == IF v < 0 THEN (v + 2147483647 + 1) \div Half + Half \div 2 ELSE v \div Half
FromHalves(hi, lo) == IF hi >= Half \div 2 THEN (hi - Half) * Half + lo ELSE hi * Half + lo
\* a + b and a - b modulo 2^32
AddU32(a, b) ==
    LET lo == Lo(a) + Lo(b)
        hi == Hi(a) + Hi(b) + lo \div Half IN
    FromHalves(hi % Half, lo % Half)
SubU32(a, b) ==
    LET lo == Lo(a) - Lo(b)
        hi == Hi(a) - Hi(b) - (IF lo < 0 THEN 1 ELSE 0) IN
    FromHalves(hi % Half, lo % Half)
\* a < b as unsigned
LtU32(a, b) == Hi(a) < Hi(b) \/ (Hi(a) = Hi(b) /\ Lo(a) < Lo(b))
\* (uint64_t)a + b > c: the 64-bit sum does not wrap
Sum64Gt(a, b, c) ==
    LET lo == Lo(a) + Lo(b)
        hi == Hi(a) + Hi(b) + lo \div Half IN
    hi >= Half \/ LtU32(c, FromHalves(hi, lo % Half))
UINT32_MAX == FromHalves(Half - 1, Half - 1)

(***************************************************************************)
(* apng_load_precompose: the chunk loop                                    *)
(***************************************************************************)
\* values the 32-bit fields of the explored files take
CanvasDims == 1..MaxCanvas
FrameSizes == 0..(MaxCanvas + 1)
Offsets == {0, 1, MaxCanvas + 1, UINT32_MAX}
\* the fcTL chunks explored: frames at the origin, and frames one pixel wide or high
\* placed anywhere along the other axis
FcTLInputs ==
    {f \in [w : FrameSizes, h : FrameSizes, x : Offsets, y : Offsets,
            delay_num : {0}, delay_den : {0}, dispose_op : 0..2, blend_op : 0..1] :
        \/ f.x = 0 /\ f.y = 0 /\ f.blend_op = 0
        \/ f.y = 0 /\ f.h = 1 /\ f.blend_op = 1
        \/ f.x = 0 /\ f.w = 1 /\ f.blend_op = 1}

\* plain files: frames of at most one pixel at the origin, never disposed of
PlainFcTL ==
    {f \in FcTLInputs : f.x = 0 /\ f.y = 0 /\ f.w <= 1 /\ f.h <= 1 /\ f.dispose_op = 0}
FcTLSeen == IF family \in {"plain", "resized"} THEN PlainFcTL ELSE FcTLInputs

\* the loops of lines 836-848 / 869-876 run maxh * maxw times; the cells they touch are
\* listed for the first ScanCap rows and columns, which is more than any canvas has
ScanCap == MaxCanvas + 1
MinU(a, b) == IF LtU32(a, b) THEN a ELSE b

\* lines 831-833, 949-951: the clamp
Clamp(len, pos, limit) == IF Sum64Gt(pos, len, limit) THEN SubU32(limit, pos) ELSE len

\* lines 836-848, 953-963: the cells <<dx, dy>> the blend loop writes
BlendCells(f, cw, chh) ==
    LET maxw == Clamp(f.w, f.x, cw)
        maxh == Clamp(f.h, f.y, chh) IN
    {<<AddU32(f.x, x), AddU32(f.y, y)>> :
        x \in 0..(MinU(maxw, ScanCap) - 1), y \in 0..(MinU(maxh, ScanCap) - 1)}

\* lines 868-877, 976-979: the cells the disposal zeroes (BACKGROUND only)
DisposeCells(f, cw, chh) == IF f.dispose_op = 1 THEN BlendCells(f, cw, chh) ELSE {}

\* the cell is a pixel of a cw x chh canvas
InCanvas(c, cw, chh) ==
    /\ c[1] >= 0 /\ LtU32(c[1], cw)
    /\ c[2] >= 0 /\ LtU32(c[2], chh)

\* lines 859-862: unsigned ms = (1000ull*num + den/2) / den with the two defaults,
\* then the floor of 10 ms
DelayMs_NoFloor(delay_num, delay_den) ==
    LET den == IF delay_den # 0 THEN delay_den ELSE 100
        num == IF delay_num # 0 THEN delay_num ELSE 1 IN
    (1000 * num + den \div 2) \div den
DelayMs(delay_num, delay_den) ==
    LET den == IF delay_den # 0 THEN delay_den ELSE 100
        num == IF delay_num # 0 THEN delay_num ELSE 1
        ms == (1000 * num + den \div 2) \div den IN
    IF ms < 10 THEN 10 ELSE ms

\* lines 850-866, 963-974: the frame is appended with its delay, the total grows
AfterStore(anim, f) ==
    LET ms == DelayMs(f.delay_num, f.delay_den) IN
    [anim EXCEPT !.delay_ms = Append(@, ms),
                 !.total_ms = AddU32(@, ms),
                 !.num_frames = @ + 1]

\* the frame under construction has to be decoded and composed (lines 774-775, 920)
Pending == cur.in_use /\ cur.idata > 0

\* a failure that returns what was built so far
ApngFail_KeepFrames ==
    /\ aPc' = "done" /\ aRes' = -1
    /\ UNCHANGED <<num_frames, is_apng, A>>

\* the allocator is called on a heap that a finalize left damaged: glibc may end the
\* process there (abort in realloc or free)
Aborted ==
    /\ heap = "damaged"
    /\ aPc' = "crashed"
    /\ UNCHANGED <<aRes, num_frames, is_apng, A>>

\* goto fail (lines 1009-1014): the buffers are freed, apnganim_free and return -1
ApngFail ==
    \/ /\ aPc' = "done" /\ aRes' = -1
       /\ num_frames' = 0 /\ is_apng' = FALSE
       /\ A' = NoAnim
    \/ Aborted

\* lines 777-883, 921-982: decode the pending frame, allocate the canvas on first use,
\* blend, store the frame, dispose, and clear cur.  A write outside the canvas buffer
\* is undefined: the run may fault there or go on, and the heap it wrote to stays
\* damaged, so that this or any later finalize may be ended in realloc, malloc or free.
Finalize(decoded, faults_here) ==
    LET cellsB == BlendCells(cur, canvas_w, canvas_h)
        cellsD == DisposeCells(cur, canvas_w, canvas_h)
        outside == \E c \in cellsB \cup cellsD : ~InCanvas(c, canvas_w, canvas_h)
        \* the canvas was allocated for fewer pixels than canvas_w * canvas_h now says
        \* (lines 819-823 allocate once; lines 855, 966-967 copy canvas_w * canvas_h)
        overread == canvasDim # <<>> /\ canvas_w * canvas_h > canvasDim[1] * canvasDim[2] IN
    /\ decoded
    /\ canvasDim' = IF canvasDim = <<>> THEN <<canvas_w, canvas_h>> ELSE canvasDim
    /\ wrote' = cellsB
    /\ cleared' = cellsD
    /\ wroteOn' = <<canvas_w, canvas_h>>
    /\ heap' = IF outside \/ overread THEN "damaged" ELSE heap
    /\ faults_here => (outside \/ overread \/ heap = "damaged")

\* the variables a chunk that only fills cur leaves alone
canvasHist == <<canvasDim, wrote, cleared, wroteOn, heap>>
header == <<ihdr_set, canvas_w, canvas_h>>

\* lines 723-728: the file is read and its signature checked
ApngLoadFile ==
    /\ aPc = "load"
    /\ \E ok \in BOOLEAN :
         IF ok THEN aPc' = "chunks" /\ aRes' = aRes ELSE aPc' = "done" /\ aRes' = -1
    /\ UNCHANGED A
    /\ UNCHANGED <<nChunks, header, saw_acTL, acTL_plays, cur, is_apng, bg, family, idat_data, chunk, canvasHist, num_frames>>
    /\ UNCHANGED <<usbVars, loaderRest>>

\* the canvas sizes an IHDR chunk may declare
HeaderDims == IF family = "resized" THEN 1..(MaxCanvas + 1) ELSE CanvasDims

\* lines 756-761: IHDR
ChunkIHDR ==
    /\ aPc = "chunks" /\ nChunks < MaxChunks
    /\ nChunks' = nChunks + 1
    /\ \E lenOk \in BOOLEAN, w \in HeaderDims, hh \in HeaderDims :
         /\ chunk' = [type |-> "IHDR", dlen |-> IF lenOk THEN 13 ELSE 12]
         /\ IF ~lenOk
            THEN /\ w = 1 /\ hh = 1
                 /\ ApngFail
                 /\ UNCHANGED header
            ELSE /\ ihdr_set' = TRUE /\ canvas_w' = w /\ canvas_h' = hh
                 /\ UNCHANGED <<aPc, aRes, num_frames, is_apng, A>>
    /\ UNCHANGED <<saw_acTL, acTL_plays, cur, bg, family, idat_data, canvasHist>>
    /\ UNCHANGED <<usbVars, loaderRest>>

\* line 762: any other chunk before IHDR
ChunkBeforeIHDR ==
    /\ aPc = "chunks" /\ nChunks < MaxChunks
    /\ ~ihdr_set
    /\ nChunks' = nChunks + 1
    /\ chunk' = [type |-> "early", dlen |-> 0]
    /\ ApngFail
    /\ UNCHANGED <<header, saw_acTL, acTL_plays, cur, bg, family, idat_data, canvasHist>>
    /\ UNCHANGED <<usbVars, loaderRest>>

\* the frame counts and play counts an acTL chunk may declare (acTL_frames and
\* acTL_plays, line 766)
AcTLFrames == {0, 2}
AcTLPlays == {0, 3}

\* lines 764-769: acTL
ChunkacTL ==
    /\ aPc = "chunks" /\ nChunks < MaxChunks
    /\ ihdr_set
    /\ nChunks' = nChunks + 1
    /\ \E lenOk \in BOOLEAN, frames \in AcTLFrames, plays \in AcTLPlays :
         /\ chunk' = [type |-> "acTL", dlen |-> IF lenOk THEN 8 ELSE 7, frames |-> frames]
         /\ IF ~lenOk
            THEN ApngFail /\ UNCHANGED <<saw_acTL, acTL_plays>>
            ELSE /\ saw_acTL' = TRUE /\ acTL_plays' = plays
                 /\ UNCHANGED <<aPc, aRes, num_frames, is_apng, A>>
    /\ UNCHANGED <<header, cur, bg, family, idat_data, canvasHist>>
    /\ UNCHANGED <<usbVars, loaderRest>>

\* what decoding the pending frame gives: the pixels, an error from both decoders
\* (lines 808-810, 929-931), or an image of another size (lines 813-816, 934-937);
\* "none" when no frame is pending
FrameDecodes == {"ok", "undecodable", "other_size"}
FrameDecoded(dec) == dec \in {"none", "ok"}

\* line 896: a frame without width or height
ZeroSize_WidthOnly(f) == f.w = 0
ZeroSize(f) == f.w = 0 \/ f.h = 0

\* lines 770-899: fcTL finalizes the frame under construction and starts the next
ChunkfcTL ==
    /\ aPc = "chunks" /\ nChunks < MaxChunks
    /\ ihdr_set
    /\ nChunks' = nChunks + 1
    /\ \E lenOk \in BOOLEAN :
       \E f \in (IF lenOk THEN FcTLSeen ELSE {CHOOSE g \in FcTLSeen : TRUE}) :
       \E dec \in (IF lenOk /\ Pending THEN FrameDecodes ELSE {"none"}) :
       \E faults_here \in (IF lenOk /\ Pending /\ FrameDecoded(dec) THEN BOOLEAN ELSE {FALSE}) :
         /\ chunk' = [type |-> "fcTL", dlen |-> IF lenOk THEN 26 ELSE 25, w |-> f.w, h |-> f.h,
                      frame |-> dec]
         /\ IF ~lenOk
            THEN ApngFail /\ UNCHANGED <<cur, canvasHist>>
            ELSE IF Pending /\ ~FrameDecoded(dec)
            THEN ApngFail /\ UNCHANGED <<cur, canvasHist>>
            ELSE /\ IF Pending
                    THEN Finalize(FrameDecoded(dec), faults_here)
                    ELSE UNCHANGED canvasHist
                 /\ IF faults_here
                    THEN /\ aPc' = "crashed"
                         /\ UNCHANGED <<aRes, num_frames, cur, is_apng, A>>
                    ELSE LET n == IF Pending THEN num_frames + 1 ELSE num_frames IN
                         IF ZeroSize(f)
                         THEN /\ ApngFail
                              /\ cur' = [NoFrame EXCEPT !.w = f.w, !.h = f.h, !.x = f.x, !.y = f.y,
                                              !.delay_num = f.delay_num,
                                              !.delay_den = f.delay_den,
                                              !.dispose_op = f.dispose_op,
                                              !.blend_op = f.blend_op]
                         ELSE /\ UNCHANGED <<aPc, aRes, is_apng>>
                              /\ num_frames' = n
                              /\ A' = IF Pending THEN AfterStore(A, cur) ELSE A
                              /\ cur' = [in_use |-> TRUE, w |-> f.w, h |-> f.h,
                                         x |-> f.x, y |-> f.y,
                                         delay_num |-> f.delay_num, delay_den |-> f.delay_den,
                                         dispose_op |-> f.dispose_op, blend_op |-> f.blend_op,
                                         idata |-> 0]
    /\ UNCHANGED <<header, saw_acTL, acTL_plays, bg, family, idat_data>>
    /\ UNCHANGED <<usbVars, loaderRest>>

\* lengths of the fdAT and IDAT chunks explored
FdATLens == {3, 4, 5}
IDATLens == {0, 1}

\* line 903: the bytes an fdAT chunk of dlen bytes adds, bv_push(&cur.idata, data+4, dlen-4)
FdATPayload_WithSeq(dlen) == dlen
FdATPayload(dlen) == dlen - 4

\* line 683: bv_reserve calls realloc when the vector has to grow; a vector of fewer
\* than 1024 bytes grows once, at its first byte
Grows(size, n) == size = 0 /\ n > 0

\* lines 900-906: fdAT
ChunkfdAT ==
    /\ aPc = "chunks" /\ nChunks < MaxChunks
    /\ ihdr_set
    /\ nChunks' = nChunks + 1
    /\ \E dlen \in FdATLens :
         /\ chunk' = [type |-> "fdAT", dlen |-> dlen]
         /\ IF ~cur.in_use
            THEN UNCHANGED <<aPc, aRes, num_frames, is_apng, cur, A>>
            ELSE IF dlen < 4
            THEN ApngFail /\ UNCHANGED cur
            ELSE \/ /\ cur' = [cur EXCEPT !.idata = cur.idata + FdATPayload(dlen)]
                    /\ UNCHANGED <<aPc, aRes, num_frames, is_apng, A>>
                 \/ /\ Grows(cur.idata, FdATPayload(dlen))
                    /\ Aborted /\ UNCHANGED cur
    /\ UNCHANGED <<header, saw_acTL, acTL_plays, bg, family, idat_data, canvasHist>>
    /\ UNCHANGED <<usbVars, loaderRest>>

\* lines 907-917: IDAT
ChunkIDAT ==
    /\ aPc = "chunks" /\ nChunks < MaxChunks
    /\ ihdr_set
    /\ nChunks' = nChunks + 1
    /\ \E dlen \in IDATLens :
         LET f == IF cur.in_use THEN cur
                  ELSE [in_use |-> TRUE, w |-> canvas_w, h |-> canvas_h, x |-> 0, y |-> 0,
                        delay_num |-> 10, delay_den |-> 100,
                        dispose_op |-> 0, blend_op |-> 0, idata |-> 0] IN
         /\ chunk' = [type |-> "IDAT", dlen |-> dlen]
         /\ idat_data' = (idat_data \/ dlen > 0)
         /\ \/ /\ cur' = [f EXCEPT !.idata = f.idata + dlen]
               /\ UNCHANGED <<aPc, aRes, num_frames, is_apng, A>>
            \/ /\ Grows(f.idata, dlen)
               /\ Aborted /\ cur' = f
    /\ UNCHANGED <<header, saw_acTL, acTL_plays, bg, family, canvasHist>>
    /\ UNCHANGED <<usbVars, loaderRest>>

\* lines 918-985: IEND finalizes the pending frame and leaves the loop
ChunkIEND ==
    /\ aPc = "chunks" /\ nChunks < MaxChunks
    /\ ihdr_set
    /\ nChunks' = nChunks + 1
    /\ \E dec \in (IF Pending THEN FrameDecodes ELSE {"none"}) :
       \E faults_here \in (IF Pending /\ FrameDecoded(dec) THEN BOOLEAN ELSE {FALSE}) :
       /\ chunk' = [type |-> "IEND", dlen |-> 0, frame |-> dec]
       /\ IF Pending /\ ~FrameDecoded(dec)
         THEN ApngFail /\ UNCHANGED <<cur, canvasHist>>
         ELSE IF Pending
         THEN /\ Finalize(FrameDecoded(dec), faults_here)
              /\ IF faults_here
                 THEN aPc' = "crashed" /\ UNCHANGED <<aRes, num_frames, cur, is_apng, A>>
                 ELSE /\ aPc' = "finish"
                      /\ num_frames' = num_frames + 1
                      /\ A' = AfterStore(A, cur)
                      /\ cur' = NoFrame
                      /\ UNCHANGED <<aRes, is_apng>>
         ELSE /\ aPc' = "finish"
              /\ UNCHANGED <<aRes, num_frames, cur, is_apng, canvasHist, A>>
    /\ UNCHANGED <<header, saw_acTL, acTL_plays, bg, family, idat_data>>
    /\ UNCHANGED <<usbVars, loaderRest>>

\* lines 987-993: any other chunk
ChunkOther ==
    /\ aPc = "chunks" /\ nChunks < MaxChunks
    /\ ihdr_set
    /\ nChunks' = nChunks + 1
    /\ chunk' = [type |-> "other", dlen |-> 0]
    /\ UNCHANGED <<aPc, aRes, header, saw_acTL, acTL_plays, cur, is_apng, bg, family, idat_data, canvasHist, num_frames, A>>
    /\ UNCHANGED <<usbVars, loaderRest>>

\* line 751: next_chunk finds no further chunk
EndOfChunks ==
    /\ aPc = "chunks"
    /\ aPc' = "finish"
    /\ UNCHANGED <<aRes, nChunks, header, saw_acTL, acTL_plays, cur, is_apng, bg, family, idat_data, chunk, canvasHist,
                   num_frames, A>>
    /\ UNCHANGED <<usbVars, loaderRest>>

\* line 999: the file is not an animation
NotAnimated_NoFrames(seen_acTL, frames) == frames = 0
NotAnimated(seen_acTL, frames) == ~seen_acTL \/ frames = 0

\* lines 996-1007: the buffers are freed and the result returned
ApngReturn ==
    /\ aPc = "finish"
    /\ \/ /\ aPc' = "done"
          /\ IF NotAnimated(saw_acTL, num_frames)
             THEN aRes' = 1 /\ num_frames' = 0 /\ is_apng' = FALSE /\ A' = NoAnim
             ELSE /\ aRes' = 0 /\ num_frames' = num_frames /\ is_apng' = TRUE
                  /\ A' = [A EXCEPT !.plays = acTL_plays]
       \/ Aborted
    /\ UNCHANGED <<nChunks, header, saw_acTL, acTL_plays, cur, bg, family, idat_data, chunk, canvasHist>>
    /\ UNCHANGED <<usbVars, loaderRest>>

\* lines 1174-1189: main takes the animation, falls back to the static decode of
\* load_png_rgba_stb (lines 637-642; stbi_load reads the IHDR and IDAT chunks and
\* exit(1) follows when it returns NULL), or gives up with return 1
UseBackground ==
    /\ aPc = "done"
    /\ IF aRes = 0 /\ is_apng
       THEN /\ aPc' = "used" /\ bg' = "animated"
            /\ UNCHANGED <<pc, exit_code, err>>
       ELSE IF aRes = 1
       THEN \/ /\ idat_data
               /\ aPc' = "used" /\ bg' = "static"
               /\ UNCHANGED <<pc, exit_code, err>>
            \/ /\ aPc' = "used" /\ bg' = bg
               /\ Exit(ExitStatus("stbi_load"), "stbi_load failed")
            \/ /\ heap = "damaged"
               /\ aPc' = "crashed" /\ bg' = bg
               /\ UNCHANGED <<pc, exit_code, err>>
       ELSE /\ aPc' = "used" /\ bg' = "failed"
            /\ Exit(ExitStatus("asset"), "background")
    /\ UNCHANGED <<aRes, nChunks, header, saw_acTL, acTL_plays, cur, is_apng, chunk, family, idat_data, canvasHist,
                   num_frames, A>>
    /\ UNCHANGED <<mainFrame, printed, session, device, packetHist, runHist, activation>>
    /\ UNCHANGED loaderRest

InitApng == UsbInit /\ aPc = "load" /\ family = "placed" /\ ApngLocals /\ UnitIdle

NextApng ==
    \/ ApngLoadFile
    \/ ChunkIHDR
    \/ ChunkBeforeIHDR
    \/ ChunkacTL
    \/ ChunkfcTL
    \/ ChunkfdAT
    \/ ChunkIDAT
    \/ ChunkIEND
    \/ ChunkOther
    \/ EndOfChunks
    \/ ApngReturn
    \/ UseBackground

SpecApng == InitApng /\ [][NextApng]_vars

\* the same loader reading plain files
InitChunks == UsbInit /\ aPc = "load" /\ family = "plain" /\ ApngLocals /\ UnitIdle

SpecChunks == InitChunks /\ [][NextApng]_vars

\* the same loader reading plain files whose IHDR chunks declare canvases of
\* different sizes
InitHeaders == UsbInit /\ aPc = "load" /\ family = "resized" /\ ApngLocals /\ UnitIdle

SpecHeaders == InitHeaders /\ [][NextApng]_vars

(***************************************************************************)
(* The delay of a stored frame (lines 859-865 and 970-974), applied to     *)
(* the 16-bit delay_num / delay_den of successive frame-control chunks     *)
(***************************************************************************)
\* (a + b) >> 32: the carry out of a 32-bit unsigned sum
CarryU32(a, b) ==
    LET lo == Lo(a) + Lo(b)
        hi == Hi(a) + Hi(b) + lo \div Half IN
    hi \div Half

\* values of the two 16-bit fields explored
U16Max == 2^16 - 1
DelayNums == {0, 1, 2, 3, 10, 20, 999, U16Max}
DelayDens == {0, 1, 2, 3, 7, 100, 1000, 2000, U16Max}
LongestDelay == [num |-> U16Max, den |-> 1]

\* lines 859-865, 970-974: the delay is stored and added to the 32-bit total
StoreDelay ==
    /\ \E num \in DelayNums, den \in DelayDens :
         LET ms == DelayMs(num, den) IN
         /\ \/ A.num_frames < MaxTable
            \/ /\ [num |-> num, den |-> den] = LongestDelay
               /\ A.num_frames < MaxLongRun
               /\ \A k \in 1..A.num_frames : A.delay_ms[k] = DelayMs(U16Max, 1)
         /\ A' = [A EXCEPT !.delay_ms = Append(@, ms),
                           !.total_ms = AddU32(@, ms),
                           !.num_frames = @ + 1]
         /\ wraps' = wraps + CarryU32(A.total_ms, ms)
         /\ lastDelay' = [num |-> num, den |-> den, ms |-> ms]
    /\ UNCHANGED <<pickVars, pixVars, probeVars, callVars, tickVars>>
    /\ UNCHANGED <<usbVars, apngVars>>

InitDelay == UsbInit /\ ApngIdle /\ UnitIdle

NextDelay == StoreDelay

SpecDelay == InitDelay /\ [][NextDelay]_vars

(***************************************************************************)
(* apng_pick_frame (lines 1017-1044) applied to stored animations          *)
(***************************************************************************)
\* t / d and t % d of an unsigned t below 2^32 by an unsigned d > 0: by 16-bit halves
\* for a small d, else by subtracting the multiples m = d * w, w a power of two
RECURSIVE DivModByDoubling(_, _, _)
DivModByDoubling(t, m, w) ==
    LET m2 == AddU32(m, m) IN
    IF m < 0 \/ LtU32(t, m2)
    THEN IF LtU32(t, m) THEN [q |-> 0, r |-> t] ELSE [q |-> w, r |-> SubU32(t, m)]
    ELSE LET up == DivModByDoubling(t, m2, w + w) IN
         IF LtU32(up.r, m) THEN up ELSE [q |-> up.q + w, r |-> SubU32(up.r, m)]
DivModU(t, d) ==
    IF d > 0 /\ d < Half \div 2
    THEN LET x == (Hi(t) % d) * Half + Lo(t) IN
         [q |-> FromHalves(Hi(t) \div d, x \div d), r |-> x % d]
    ELSE DivModByDoubling(t, d, 1)

\* a uint64_t as its two 32-bit words; its quotient and remainder by an unsigned d:
\* DivModU for a value below 2^32, else long division over the four 16-bit limbs
\* (the animations played for that long have d < 2^15)
DivModU64(hi, lo, d) ==
    IF hi = 0
    THEN LET one == DivModU(lo, d) IN [qhi |-> 0, q |-> one.q, r |-> one.r]
    ELSE LET x3 == Hi(hi)
             x2 == (x3 % d) * Half + Lo(hi)
             x1 == (x2 % d) * Half + Hi(lo)
             x0 == (x1 % d) * Half + Lo(lo) IN
         [qhi |-> FromHalves(x3 \div d, x2 \div d),
          q |-> FromHalves(x1 \div d, x0 \div d), r |-> x0 % d]
\* k * d + e as a uint64_t, for d < 2^15 and e < d
TimeAt(k, d, e) ==
    LET p0 == Lo(k) * d
        p1 == Hi(k) * d + p0 \div Half
        lo == FromHalves(Lo(p1), Lo(p0)) IN
    [hi |-> p1 \div Half + CarryU32(lo, e), lo |-> AddU32(lo, e)]

\* line 1021: t = (uint64_t)((double)base_ms * (speed > 0 ? speed : 1.0)), speed a whole number
ScaledTime(base_ms, speed) == IF speed > 0 THEN base_ms * speed ELSE base_ms

\* lines 1022-1026: the play limit in force
EffLoops(An, loop_mode, loop_N) ==
    LET loops_file == IF An.plays = 0 THEN UINT32_MAX ELSE An.plays IN
    IF loop_mode = 1 THEN UINT32_MAX
    ELSE IF loop_mode = 2 THEN 1
    ELSE IF loop_mode = 3 THEN (IF loop_N = 0 THEN 1 ELSE loop_N)
    ELSE loops_file

\* line 1034: in_cycle = t % duration
InCycle_Elapsed(t, duration) == t
InCycle(t, duration) == DivModU(t, duration).r

\* lines 1036-1040: the scan of the delay table, acc and acc + d in unsigned arithmetic.
\* ScanStep is one iteration of the for loop, ScanDelays the iterations idx = lo..hi
\* (split in halves to keep the evaluation shallow).
ScanStep(An, in_cycle, st) ==
    LET d == An.delay_ms[st.idx + 1]
        sum == AddU32(st.acc, d) IN
    IF LtU32(in_cycle, sum) THEN [st EXCEPT !.brk = TRUE]
    ELSE [idx |-> st.idx + 1, acc |-> sum, brk |-> FALSE]
RECURSIVE ScanDelays(_, _, _, _, _)
ScanDelays(An, in_cycle, lo, hi, st) ==
    IF st.brk \/ lo > hi THEN st
    ELSE IF lo = hi THEN ScanStep(An, in_cycle, st)
    ELSE LET mid == (lo + hi) \div 2
             left == ScanDelays(An, in_cycle, lo, mid, st) IN
         ScanDelays(An, in_cycle, mid + 1, hi, left)

\* base_ms is the uint64_t hi * 2^32 + base_ms; a time of 2^32 or more is played at
\* speed 1
PickAt(An, hi, base_ms, speed, loop_mode, loop_N) ==
    IF An.num_frames = 0 THEN [idx |-> 0, rem |-> 0]
    ELSE IF An.total_ms = 0 THEN [idx |-> An.num_frames - 1, rem |-> 0]
    ELSE LET t == IF hi = 0 THEN ScaledTime(base_ms, speed) ELSE base_ms
             loops == EffLoops(An, loop_mode, loop_N)
             duration == An.total_ms
             cycle == DivModU64(hi, t, duration) IN
         IF cycle.qhi # 0 \/ ~LtU32(cycle.q, loops)
         THEN [idx |-> An.num_frames - 1, rem |-> 0]
         ELSE LET in_cycle == InCycle(IF hi = 0 THEN t ELSE cycle.r, duration)
                  sc == ScanDelays(An, in_cycle, 0, An.num_frames - 1,
                                   [idx |-> 0, acc |-> 0, brk |-> FALSE])
                  idx == IF sc.idx >= An.num_frames THEN An.num_frames - 1 ELSE sc.idx IN
              [idx |-> idx, rem |-> SubU32(AddU32(sc.acc, An.delay_ms[idx + 1]), in_cycle)]
apng_pick_frame(An, base_ms, speed, loop_mode, loop_N) ==
    PickAt(An, 0, base_ms, speed, loop_mode, loop_N)

\* the table the loader stores for a sequence of delays (lines 862-865); TotalMs is
\* total_ms after the frames lo..hi were added to 0
RECURSIVE TotalMs(_, _, _)
TotalMs(delays, lo, hi) ==
    IF lo > hi THEN 0
    ELSE IF lo = hi THEN delays[lo]
    ELSE LET mid == (lo + hi) \div 2
             a == TotalMs(delays, lo, mid)
             b == TotalMs(delays, mid + 1, hi) IN
         AddU32(a, b)
Stored(delays, plays) ==
    [num_frames |-> Len(delays), total_ms |-> TotalMs(delays, 1, Len(delays)),
     delay_ms |-> delays, plays |-> plays]

PickDelays == {DelayMs(1, 100), DelayMs(10, 100), DelayMs(20, 100)}
PickPlays == {0, 1, 2}
ShortTables == UNION {[1..n -> PickDelays] : n \in 1..MaxTable}
LongTables == {[i \in 1..n |-> DelayMs(U16Max, 1)] : n \in {MaxLongRun, PickLongRun}}
PickTables == {Stored(d, p) : d \in ShortTables \cup LongTables, p \in PickPlays}

\* <<loop_mode, loop_N>> of the layout; speed as a whole number
LoopArgs == {<<0, 0>>, <<1, 0>>, <<2, 0>>, <<3, 0>>, <<3, 2>>, <<3, -1>>}
Speeds == {0, 1, 2}
\* positions inside one cycle: frame boundaries, the instants before them, mid-frame
Marks(n) == {1, 2, n \div 2, n - 1, n} \cap (1..n)
Phases(An) ==
    LET ends == {TotalMs(An.delay_ms, 1, n) : n \in Marks(An.num_frames)} IN
    {e \in {0, 50, 150} \cup ends \cup {SubU32(x, 1) : x \in ends} : LtU32(e, An.total_ms)}
\* the cycles played: the first ones and, for a short animation, the last two a
\* 32-bit cycle count can hold
FarCycles == {SubU32(UINT32_MAX, 1), UINT32_MAX}
Cycles(An) ==
    IF An.total_ms > 0 /\ An.total_ms < Half \div 2 THEN (0..MaxCycles) \cup FarCycles
    ELSE IF An.total_ms > 0 /\ An.total_ms < Half THEN 0..MaxCycles
    ELSE {0}

\* one call of apng_pick_frame from the render loop (lines 1246, 1264); the function
\* keeps no state between calls, so each behaviour holds one call
PickFrame ==
    /\ ~pickIn.called
    /\ \E la \in LoopArgs, speed \in Speeds, k \in Cycles(A), e \in Phases(A) :
         LET at == IF k \in FarCycles THEN TimeAt(k, A.total_ms, e)
                   ELSE [hi |-> 0, lo |-> k * A.total_ms + e]
             base_ms == at.lo IN
         /\ speed > 1 => (at.hi = 0 /\ base_ms >= 0 /\ base_ms < Half)
         /\ pickIn' = [called |-> TRUE, hi |-> at.hi, base_ms |-> base_ms, speed |-> speed,
                       loop_mode |-> la[1], loop_N |-> la[2], k |-> k, e |-> e]
         /\ pickOut' = PickAt(A, at.hi, base_ms, speed, la[1], la[2])
    /\ UNCHANGED <<animVars, pixVars, probeVars, callVars, tickVars>>
    /\ UNCHANGED <<usbVars, apngVars>>

InitPick ==
    /\ UsbInit /\ ApngIdle
    /\ A \in PickTables
    /\ wraps = 0 /\ lastDelay = NoDelay
    /\ pickIn = NoPickIn /\ pickOut = NoPickOut
    /\ NoPixels /\ NoProbe /\ NoCall /\ NoTick

NextPick == PickFrame

SpecPick == InitPick /\ [][NextPick]_vars

(***************************************************************************)
(* The pixels of one finalize (lines 819-880, 936-980): premultiply,       *)
(* snapshot, clamp, blend, store, dispose.  A pixel is <<r, g, b, a>>.     *)
(***************************************************************************)
Transparent == <<0, 0, 0, 0>>

\* lines 502-510
PremulPx(p) ==
    <<((p[1] * p[4] + 127) \div 255) % 256, ((p[2] * p[4] + 127) \div 255) % 256,
      ((p[3] * p[4] + 127) \div 255) % 256, p[4]>>
premultiply_rgba(buf) == [i \in DOMAIN buf |-> PremulPx(buf[i])]

\* lines 497-501: pixel i and pixel n-1-i change places
rotate180_rgba(buf, n) == [i \in 0..(n - 1) |-> buf[n - 1 - i]]

over_premul_Inv256(dst, src) ==
    LET aS == src[4]
        inv == 256 - aS IN
    <<(src[1] + (dst[1] * inv + 127) \div 255) % 256,
      (src[2] + (dst[2] * inv + 127) \div 255) % 256,
      (src[3] + (dst[3] * inv + 127) \div 255) % 256,
      (aS + (dst[4] * inv + 127) \div 255) % 256>>

\* lines 512-518
over_premul(dst, src) ==
    LET aS == src[4]
        inv == 255 - aS IN
    <<(src[1] + (dst[1] * inv + 127) \div 255) % 256,
      (src[2] + (dst[2] * inv + 127) \div 255) % 256,
      (src[3] + (dst[3] * inv + 127) \div 255) % 256,
      (aS + (dst[4] * inv + 127) \div 255) % 256>>

\* A pixel outside the buffers of the loader holds whatever the heap holds there: block
\* sizes, pointers, freed data, bytes of other buffers.  HeapBytes are the values such a
\* pixel can have; Wild is the one value that stands for each of them in a buffer
\* (Stands gives the pixels a buffer pixel of the model stands for; a property of pixels
\* holds of Wild only when it holds of each of them).
HeapBytes == [1..4 -> 0..255]
Wild == <<256, 256, 256, 256>>
Stands(p) == IF p = Wild THEN HeapBytes ELSE {p}
\* The same four bytes in an entry of A->delay_ms are one unsigned of any value.  The
\* delays stored by lines 859-864 are 10 ms at least, so 0 is free to be the one value
\* that stands for each of them (StandsMs gives the delays an entry of the model
\* stands for).
WildMs == 0
StandsMs(d) == IF d = WildMs THEN Int ELSE {d}

\* lines 842-846: blend_op 0 copies the source pixel, any other value blends over.
\* An opaque source replaces whatever the destination holds; any other blend with
\* heap bytes gives bytes that depend on them
BlendPx(dst, src, blend_op) ==
    IF blend_op = 0 THEN src
    ELSE IF src = Wild THEN Wild
    ELSE IF dst = Wild THEN (IF src[4] = 255 THEN src ELSE Wild)
    ELSE over_premul(dst, src)

\* lines 837-841: iteration k of the two nested loops, its canvas pixel and source pixel
\* (dx and dy are ints, the index is computed in size_t)
IterX(k, maxw) == k % maxw
IterY(k, maxw) == k \div maxw
DstIndex(f, cw, k, maxw) == AddU32(f.y, IterY(k, maxw)) * cw + AddU32(f.x, IterX(k, maxw))
SrcIndex(f, k, maxw) == IterY(k, maxw) * f.w + IterX(k, maxw)

\* the loops run (no row or column count is 0)
LoopRuns(maxw, maxh) == maxw # 0 /\ maxh # 0
\* every access of the loops falls inside the canvas and the decoded frame
LoopInBounds(f, cw, chh, maxw, maxh) ==
    /\ maxw >= 1 /\ maxw <= f.w * f.h
    /\ maxh >= 1 /\ maxh <= f.w * f.h
    /\ \A k \in 0..(maxw * maxh - 1) :
         /\ DstIndex(f, cw, k, maxw) \in 0..(cw * chh - 1)
         /\ SrcIndex(f, k, maxw) \in 0..(f.w * f.h - 1)

\* lines 836-848: the iterations lo..hi of the blend loop, in order
RECURSIVE BlendLoop(_, _, _, _, _, _, _)
BlendLoop(cv, px, f, cw, maxw, lo, hi) ==
    IF lo > hi THEN cv
    ELSE IF lo = hi
    THEN LET d == DstIndex(f, cw, lo, maxw) IN
         [cv EXCEPT ![d] = BlendPx(cv[d], px[SrcIndex(f, lo, maxw)], f.blend_op)]
    ELSE LET mid == (lo + hi) \div 2
             left == BlendLoop(cv, px, f, cw, maxw, lo, mid) IN
         BlendLoop(left, px, f, cw, maxw, mid + 1, hi)

\* lines 868-879: the disposal
Dispose(cv, snap, f, cw, maxw, maxh) ==
    IF f.dispose_op = 1
    THEN LET hit == IF LoopRuns(maxw, maxh)
                    THEN {DstIndex(f, cw, k, maxw) : k \in 0..(maxw * maxh - 1)} ELSE {} IN
         [i \in DOMAIN cv |-> IF i \in hit THEN Transparent ELSE cv[i]]
    ELSE IF f.dispose_op = 2 THEN snap
    ELSE cv

\* decoded frames: every pixel opaque with its own colour, half transparent, or invisible
Fills == {"ramp", "half", "clear"}
Decoded(fill, n) ==
    [i \in 0..(n - 1) |->
        IF fill = "ramp" THEN <<10 + i, 200, 30, 255>>
        ELSE IF fill = "half" THEN <<255, 100, 0, 128>>
        ELSE <<90, 90, 90, 0>>]

Sides == 1..MaxSide
FrameSides == 1..(MaxSide + 1)
PixOffsets == (0..MaxSide) \cup {UINT32_MAX}
\* the frame covers the canvas exactly and replaces it (as the default image does)
IsBase(f) ==
    /\ f.x = 0 /\ f.y = 0 /\ f.w = canvas_w /\ f.h = canvas_h
    /\ f.blend_op = 0 /\ f.dispose_op = 0
\* frames at the origin, and strips one pixel wide or high placed anywhere
PixFrames ==
    {f \in [w : FrameSides, h : FrameSides, x : PixOffsets, y : PixOffsets,
            dispose_op : 0..2, blend_op : 0..1, delay_num : {0}, delay_den : {0}] :
        \/ f.x = 0 /\ f.y = 0
        \/ f.w = 1
        \/ f.h = 1}

\* the frames followed after a finalize that left a buffer: frames at the origin and
\* strips one pixel high placed anywhere along the first row
LaterFrames ==
    {f \in PixFrames : f.y = 0 /\ (f.x = 0 \/ (f.h = 1 /\ f.dispose_op = 0))}

\* lines 850-857: copy = malloc(canvas_bytes), memcpy(copy, canvas, canvas_bytes), and
\* the new buffer becomes the last entry of A->frame_rgba
StoreFrame(frames, cv) == Append(frames, cv)
\* A clamp that wrapped (lines 831-833) makes the blend loop of lines 836-848 leave the
\* canvas, the decoded frame, or both.  A count of 2^31 or more columns or rows walks
\* upwards through the heap, over the buffers allocated above the canvas, until the
\* process is ended by a signal; a smaller count is at most one more than the canvas
\* side and the loop completes.
Huge(m) == m < 0
\* the columns w and rows h of such a loop that can reach a canvas pixel
Scan(cw, chh, maxw, maxh) ==
    [w |-> IF Huge(maxw) THEN cw * chh ELSE maxw,
     h |-> IF Huge(maxw) \/ Huge(maxh) THEN 1 ELSE maxh]
\* the iterations lo..hi of the loop, in order, sw columns a row: src (line 841) is a
\* pixel of the decoded frame or, behind its last pixel, heap bytes; an iteration whose
\* dst lies in the canvas changes that pixel, any other writes outside of it
RECURSIVE BlendLoopOut(_, _, _, _, _, _, _)
BlendLoopOut(cv, px, f, cw, sw, lo, hi) ==
    IF lo > hi THEN cv
    ELSE LET d == DstIndex(f, cw, lo, sw)
             s == SrcIndex(f, lo, sw)
             src == IF s \in DOMAIN px THEN px[s] ELSE Wild
             after == IF d \in DOMAIN cv
                      THEN [cv EXCEPT ![d] = BlendPx(cv[d], src, f.blend_op)]
                      ELSE cv IN
         BlendLoopOut(after, px, f, cw, sw, lo + 1, hi)
\* the canvas the loop leaves
Overread(cv, px, f, cw, chh, maxw, maxh) ==
    LET sc == Scan(cw, chh, maxw, maxh) IN
    BlendLoopOut(cv, px, f, cw, sc.w, 0, sc.w * sc.h - 1)
\* a heap block above the canvas (the buffer of a stored frame, the snapshot, the array
\* A->delay_ms of line 852) after a loop of 2^31 or more columns or rows walked over
\* it: the 4-byte cells a..b it reached before the signal hold heap bytes, a blend with
\* them, or (between the columns of the loop) what they held
Swept(buf, wild) ==
    {buf} \cup
    {[i \in DOMAIN buf |-> IF i >= a /\ i <= b THEN wild ELSE buf[i]] :
        a \in DOMAIN buf, b \in DOMAIN buf}
\* a write outside the canvas lands in the heap memory around it: in nothing that is
\* read again, in a pixel of the buffer of a frame stored earlier, or in an entry of
\* A->delay_ms; a huge loop walks over the blocks that lie above the canvas
RECURSIVE Overrun(_, _, _, _, _, _, _)
Overrun(frames, px, f, cw, chh, maxw, maxh) ==
    LET sc == Scan(cw, chh, maxw, maxh)
        out == {k \in 0..(sc.w * sc.h - 1) : DstIndex(f, cw, k, sc.w) \notin 0..(cw * chh - 1)}
        gs == {IF SrcIndex(f, k, sc.w) \in DOMAIN px THEN px[SrcIndex(f, k, sc.w)]
               ELSE Wild : k \in out} IN
    IF Huge(maxw) \/ Huge(maxh)
    THEN IF frames = <<>> THEN {<<>>}
         ELSE {<<first>> \o rest :
                 first \in Swept(Head(frames), Wild),
                 rest \in Overrun(Tail(frames), px, f, cw, chh, maxw, maxh)}
    ELSE {frames} \cup
         {[frames EXCEPT ![j][i] = BlendPx(@, g, f.blend_op)] :
             j \in DOMAIN frames, i \in {0}, g \in gs}

\* lines 819-880 (and 936-980) for a frame that decoded to f.w x f.h pixels.  Once a
\* loop has left a buffer the behaviour is undefined: the heap stays damaged, and this
\* finalize and every later one is ended by a signal (in the loop, or by abort in
\* malloc, realloc or free after it) or goes on to the end of the block.  The loop
\* writes to heap blocks only: the canvas, the snapshot, the buffers of the stored
\* frames and the array A->delay_ms (lines 819-823, 851-854); A->num_frames,
\* A->total_ms and A->plays are fields of the caller's ApngAnim (a local of main,
\* lines 1141, 1194), which no loop reaches before the signal.  An entry of delay_ms
\* the loop wrote to holds four heap bytes read as one unsigned (WildMs).  frame_copy
\* is the buffer of the frame stored last, so it changes with that buffer; a finalize
\* that is ended stores no frame and no delay.
ComposeFrame ==
    /\ A.num_frames < MaxComposed
    /\ IF comp.state = "undefined" THEN ~comp.ended
       ELSE IF A.num_frames > 0 THEN comp.base
       ELSE TRUE
    /\ \E f \in (IF heap = "damaged" THEN LaterFrames ELSE PixFrames), fill \in Fills :
         LET n == f.w * f.h
             pm == premultiply_rgba(Decoded(fill, n))
             px == IF rotate180_all THEN rotate180_rgba(pm, n) ELSE pm
             snap == IF f.dispose_op = 2 THEN canvas ELSE canvas_prev
             maxw == Clamp(f.w, f.x, canvas_w)
             maxh == Clamp(f.h, f.y, canvas_h)
             ms == DelayMs(f.delay_num, f.delay_den)
             outside == LoopRuns(maxw, maxh) /\ ~LoopInBounds(f, canvas_w, canvas_h, maxw, maxh)
             huge == Huge(maxw) \/ Huge(maxh)
             sc == Scan(canvas_w, canvas_h, maxw, maxh)
             left == outside /\ \E k \in 0..(sc.w * sc.h - 1) :
                        DstIndex(f, canvas_w, k, sc.w) \notin 0..(canvas_w * canvas_h - 1) IN
         \E blended \in {IF outside
                         THEN Overread(canvas, px, f, canvas_w, canvas_h, maxw, maxh)
                         ELSE IF LoopRuns(maxw, maxh)
                         THEN BlendLoop(canvas, px, f, canvas_w, maxw, 0, maxw * maxh - 1)
                         ELSE canvas} :
         /\ heap' = IF outside THEN "damaged" ELSE heap
         /\ IF outside \/ heap = "damaged"
            THEN \E kept \in (IF outside
                              THEN Overrun(frame_rgba, px, f, canvas_w, canvas_h, maxw, maxh)
                              ELSE {frame_rgba}),
                    prev \in (IF outside /\ huge THEN Swept(snap, Wild)
                              ELSE {snap}),
                    delays \in (IF left THEN Swept(A.delay_ms, WildMs)
                                ELSE {A.delay_ms}),
                    ended \in BOOLEAN :
                   /\ (outside /\ huge) => ended
                   /\ comp' = [state |-> "undefined", ended |-> ended]
                   /\ canvas_prev' = prev
                   /\ IF ended
                      THEN /\ canvas' = blended
                           /\ frame_rgba' = kept
                           /\ frame_copy' = IF kept = <<>> THEN frame_copy
                                            ELSE kept[Len(kept)]
                           /\ entry' = canvas
                           /\ A' = [A EXCEPT !.delay_ms = delays]
                           /\ UNCHANGED <<wraps, lastDelay>>
                      ELSE /\ frame_copy' = blended
                           /\ frame_rgba' = StoreFrame(kept, blended)
                           /\ canvas' = Dispose(blended, snap, f, canvas_w, maxw, maxh)
                           /\ entry' = canvas
                           /\ A' = [A EXCEPT !.delay_ms = Append(delays, ms),
                                             !.total_ms = AddU32(@, ms),
                                             !.num_frames = @ + 1]
                           /\ wraps' = wraps + CarryU32(A.total_ms, ms)
                           /\ lastDelay' = [num |-> f.delay_num, den |-> f.delay_den,
                                            ms |-> ms]
            ELSE /\ canvas_prev' = snap
                 /\ frame_copy' = blended
                 /\ frame_rgba' = StoreFrame(frame_rgba, blended)
                 /\ canvas' = Dispose(blended, snap, f, canvas_w, maxw, maxh)
                 /\ entry' = canvas
                 /\ comp' = [state |-> "composed", f |-> f, px |-> px, base |-> IsBase(f)]
                 /\ A' = [A EXCEPT !.delay_ms = Append(@, ms),
                                   !.total_ms = AddU32(@, ms),
                                   !.num_frames = @ + 1]
                 /\ wraps' = wraps + CarryU32(A.total_ms, ms)
                 /\ lastDelay' = [num |-> f.delay_num, den |-> f.delay_den, ms |-> ms]
    /\ UNCHANGED <<rotate180_all, pickVars, probeVars, callVars, tickVars>>
    /\ UNCHANGED <<aPc, aRes, nChunks, header, saw_acTL, acTL_plays, cur, is_apng, bg, chunk,
                   family, canvasDim, num_frames, wrote, cleared, wroteOn, idat_data>>
    /\ UNCHANGED usbVars

\* the state at the first finalize of a file with an acTL and a canvas_w x canvas_h IHDR:
\* both canvases come from calloc (lines 819-823)
InitCompose ==
    /\ UsbInit
    /\ aPc = "compose" /\ aRes = 2 /\ nChunks = 0
    /\ ihdr_set = TRUE /\ canvas_w \in Sides /\ canvas_h \in Sides /\ saw_acTL = TRUE
    /\ acTL_plays = 0
    /\ cur = NoFrame /\ canvasDim = <<>> /\ num_frames = 0
    /\ is_apng = FALSE /\ bg = "none" /\ chunk = NoChunk /\ family = "placed"
    /\ wrote = {} /\ cleared = {} /\ wroteOn = <<>>
    /\ heap = "intact" /\ idat_data = FALSE
    /\ A = NoAnim /\ wraps = 0 /\ lastDelay = NoDelay
    /\ pickIn = NoPickIn /\ pickOut = NoPickOut
    /\ rotate180_all \in BOOLEAN
    /\ canvas = [i \in 0..(canvas_w * canvas_h - 1) |-> Transparent]
    /\ canvas_prev = [i \in 0..(canvas_w * canvas_h - 1) |-> Transparent]
    /\ frame_copy = <<>> /\ entry = <<>>
    /\ frame_rgba = <<>>
    /\ comp = NoComp
    /\ NoProbe /\ NoCall /\ NoTick

NextCompose == ComposeFrame

SpecCompose == InitCompose /\ [][NextCompose]_vars

(***************************************************************************)
(* pick_iface_and_out_ep (lines 1083-1102) applied to descriptors with up  *)
(* to MaxEps endpoints spread over two interfaces of two alt-settings      *)
(***************************************************************************)
IfaceIdx == {0, 1}
AltIdx == {0, 1}
\* bmAttributes and direction of an endpoint: interrupt, bulk or isochronous, OUT or IN
EpKinds == {[attr |-> LIBUSB_TRANSFER_TYPE_INTERRUPT, in |-> FALSE],
            [attr |-> LIBUSB_TRANSFER_TYPE_BULK, in |-> FALSE],
            [attr |-> LIBUSB_TRANSFER_TYPE_INTERRUPT, in |-> TRUE],
            [attr |-> 1, in |-> FALSE]}
\* the endpoints of a descriptor listed in the order of the arrays: by interface, then
\* alt-setting; endpoint k has endpoint number k
SlotLists ==
    UNION {{sl \in [1..n -> [i : IfaceIdx, a : AltIdx, kind : EpKinds]] :
               \A k \in 1..(n - 1) :
                   \/ sl[k].i < sl[k + 1].i
                   \/ sl[k].i = sl[k + 1].i /\ sl[k].a <= sl[k + 1].a} : n \in 0..MaxEps}
Wants == {-1} \cup IfaceIdx \cup {Cardinality(IfaceIdx)}
\* bEndpointAddress of slot k
SlotAddr(sl, k) == k + (IF sl[k].kind.in THEN 128 ELSE 0)
\* the libusb_config_descriptor with these endpoints; bInterfaceNumber is the index
CfgOf(p) ==
    IF ~p.readable THEN CfgUnreadable
    ELSE LET sl == p.slots
             Ep(k) == [i |-> sl[k].i, a |-> sl[k].a,
                       addr |-> SlotAddr(sl, k), attr |-> sl[k].kind.attr]
             all == [k \in 1..Len(sl) |-> Ep(k)]
             EpsAt(i, a) ==
                LET Here(e) == e.i = i /\ e.a = a
                    mine == SelectSeq(all, Here) IN
                [k \in 1..Len(mine) |-> [addr |-> mine[k].addr, attr |-> mine[k].attr]] IN
         [rc |-> 0,
          ifs |-> [i \in 1..Cardinality(IfaceIdx) |->
                     [a \in 1..Cardinality(AltIdx) |->
                        [num |-> i - 1, eps |-> EpsAt(i - 1, a - 1)]]]]

\* one call of pick_iface_and_out_ep with *iface = -1 and *ep_out = 0 at entry
Discover ==
    /\ ~picked.called
    /\ LET r == pick_iface_and_out_ep(CfgOf(probe), probe.want_iface, -1, 0) IN
       picked' = [called |-> TRUE, rc |-> r.rc, iface |-> r.iface, ep |-> r.ep]
    /\ UNCHANGED <<probe, animVars, pickVars, pixVars, callVars, tickVars>>
    /\ UNCHANGED <<usbVars, apngVars>>

InitDiscover ==
    /\ UsbInit /\ ApngIdle
    /\ A = NoAnim /\ wraps = 0 /\ lastDelay = NoDelay
    /\ pickIn = NoPickIn /\ pickOut = NoPickOut
    /\ NoPixels
    /\ probe \in [readable : BOOLEAN, slots : SlotLists, want_iface : Wants]
    /\ ~probe.readable => probe.slots = <<>>
    /\ picked = [called |-> FALSE]
    /\ NoCall /\ NoTick

NextDiscover == Discover

SpecDiscover == InitDiscover /\ [][NextDiscover]_vars

(***************************************************************************)
(* Canvas size and viewport origin: load_layout line 354, main lines       *)
(* 1166-1169, compute_viewport lines 1049-1052                             *)
(***************************************************************************)
\* the other unit variables at rest
UnitRest ==
    /\ A = NoAnim /\ wraps = 0 /\ lastDelay = NoDelay
    /\ pickIn = NoPickIn /\ pickOut = NoPickOut
    /\ NoPixels /\ NoProbe

INT_MAX == 2147483647
\* a * b in a 32-bit int register, for 0 <= b < Half
MulI32(a, b) ==
    LET low == Lo(a) * b
        high == Hi(a) * b + low \div Half IN
    FromHalves(high % Half, low % Half)
\* C integer division (truncation toward zero) by b > 0
CDiv(a, b) == IF a >= 0 THEN a \div b ELSE -((-(a + b)) \div b) - 1
\* (side * p + 99) / 100 of lines 1167-1168 as the wrapping build computes it
ScaledSide(side, p) == CDiv(AddU32(MulI32(p, side), 99), 100)
\* side * p + 99 exceeds INT_MAX: signed overflow
ScaleOverflows(side, p) == p > (INT_MAX - 99) \div side
\* line 354
ClampPercent(fb_scale_percent) == IF fb_scale_percent < 100 THEN 100 ELSE fb_scale_percent
\* lines 1050-1052, one axis: v is viewport_x or viewport_y, fb the canvas side
ViewAxis(v, side_px, side) ==
    LET x0 == IF v < 0 THEN CDiv(side_px - side, 2) ELSE v
        x1 == IF x0 < 0 THEN 0 ELSE x0 IN
    IF x1 > side_px - side THEN side_px - side ELSE x1

\* fb_scale_percent as atoi returns it; the last one makes 240 * p + 99 overflow
HugePercent == 2^28 + 50
ScalePercents == {-1, 0, 99} \cup (100..MaxPercent) \cup {HugePercent}
\* viewport_x / viewport_y: -1 is "center", other values are atoi results
ViewOrigins == {-2, -1, 0, 1, 60, 80, 119, 120, 121, 160, 161, 5000}

\* load_layout, the canvas size of main and the viewport of one tick
ComputeView ==
    /\ call.fn = "compute_viewport" /\ ~result.called
    /\ LET p == ClampPercent(call.fb_scale_percent)
           fbw == ScaledSide(PanelW, p)
           fbh == ScaledSide(PanelH, p) IN
       \E ub \in {u \in BOOLEAN : u => ScaleOverflows(PanelH, p)} :
           result' = [called |-> TRUE, undefined |-> ub, fbw |-> fbw, fbh |-> fbh,
                      vx |-> ViewAxis(call.viewport_x, fbw, PanelW),
                      vy |-> ViewAxis(call.viewport_y, fbh, PanelH)]
    /\ UNCHANGED <<call, animVars, pickVars, pixVars, probeVars, tickVars>>
    /\ UNCHANGED <<usbVars, apngVars>>

InitView ==
    /\ UsbInit /\ ApngIdle /\ UnitRest
    /\ call \in [fn : {"compute_viewport"}, fb_scale_percent : ScalePercents,
                  viewport_x : ViewOrigins, viewport_y : ViewOrigins]
    /\ result = [called |-> FALSE]
    /\ NoTick

NextView == ComputeView

SpecView == InitView /\ [][NextView]_vars

(***************************************************************************)
(* map_ui_xy_fb (lines 545-554) applied to one logical point               *)
(***************************************************************************)
ORIENT_PORTRAIT == 0
ORIENT_LANDSCAPE == 1

map_ui_xy_fb_SameSide(xL, yL, o, flip180, ccw, fbw, fbh) ==
    LET m == IF o = ORIENT_PORTRAIT THEN <<xL, yL>>
             ELSE IF ccw # 0 THEN <<PanelW - 1 - yL, xL>>
             ELSE <<yL, PanelW - 1 - xL>>
        f == IF flip180 # 0 THEN <<PanelW - 1 - m[1], PanelH - 1 - m[2]>> ELSE m IN
    <<CDiv(fbw - PanelW, 2) + f[1], CDiv(fbh - PanelH, 2) + f[2]>>

\* <<*dx, *dy>>; ccw is L->text_landscape_ccw
map_ui_xy_fb(xL, yL, o, flip180, ccw, fbw, fbh) ==
    LET m == IF o = ORIENT_PORTRAIT THEN <<xL, yL>>
             ELSE IF ccw # 0 THEN <<PanelW - 1 - yL, xL>>
             ELSE <<yL, PanelH - 1 - xL>>
        f == IF flip180 # 0 THEN <<PanelW - 1 - m[1], PanelH - 1 - m[2]>> ELSE m IN
    <<CDiv(fbw - PanelW, 2) + f[1], CDiv(fbh - PanelH, 2) + f[2]>>

\* LW and LH of draw_overlay_ui (line 562): the logical region of an orientation
LogicalW(o) == IF o = ORIENT_PORTRAIT THEN PanelW ELSE PanelH
LogicalH(o) == IF o = ORIENT_PORTRAIT THEN PanelH ELSE PanelW

\* canvases of fb_scale_percent 100, 101 and 150
UiCanvases == {<<ScaledSide(PanelW, q), ScaledSide(PanelH, q)>> : q \in {100, 101, 150}}
UiMarks == {0, PanelW - 1, PanelH - 1}

MapPoint ==
    /\ call.fn = "map_ui_xy_fb" /\ ~result.called
    /\ LET d == map_ui_xy_fb(call.xL, call.yL, call.o, call.flip180, call.ccw,
                             call.fbw, call.fbh) IN
       result' = [called |-> TRUE, dx |-> d[1], dy |-> d[2]]
    /\ UNCHANGED <<call, animVars, pickVars, pixVars, probeVars, tickVars>>
    /\ UNCHANGED <<usbVars, apngVars>>

InitMap ==
    /\ UsbInit /\ ApngIdle /\ UnitRest
    /\ \E c \in UiCanvases :
          call \in [fn : {"map_ui_xy_fb"}, o : {ORIENT_PORTRAIT, ORIENT_LANDSCAPE},
                    flip180 : {0, 1, 2}, ccw : {0, 1}, fbw : {c[1]}, fbh : {c[2]},
                    xL : UiMarks, yL : UiMarks]
    /\ call.xL < LogicalW(call.o) /\ call.yL < LogicalH(call.o)
    /\ result = [called |-> FALSE]
    /\ NoTick

SpecMap == InitMap /\ [][MapPoint]_vars

(***************************************************************************)
(* draw_text_ttf (lines 603-607, 626): the settings each text item of the  *)
(* loop at line 1276 is drawn with                                         *)
(***************************************************************************)
\* the overrides written through to the shared Layout
TextSettings_Sticky(ti, global_o, global_flip, L) ==
    LET o == IF ti.orient_override # -1
             THEN (IF ti.orient_override = 1 THEN ORIENT_LANDSCAPE ELSE ORIENT_PORTRAIT)
             ELSE global_o
        flip == IF ti.flip_override # -1 THEN ti.flip_override ELSE global_flip
        ccw == IF ti.landscape_ccw_override # -1 THEN ti.landscape_ccw_override
               ELSE L.text_landscape_ccw IN
    [o |-> o, flip |-> flip, ccw |-> ccw,
     L |-> [text_orient |-> o, text_flip |-> flip, text_landscape_ccw |-> ccw]]

\* lines 603-607: o, flip and Lloc.text_landscape_ccw of one item; L is the caller's
\* Layout after the call (Lloc is a copy, *L is const)
TextSettings(ti, global_o, global_flip, L) ==
    LET o == IF ti.orient_override # -1
             THEN (IF ti.orient_override = 1 THEN ORIENT_LANDSCAPE ELSE ORIENT_PORTRAIT)
             ELSE global_o
        flip == IF ti.flip_override # -1 THEN ti.flip_override ELSE global_flip
        ccw == IF ti.landscape_ccw_override # -1 THEN ti.landscape_ccw_override
               ELSE L.text_landscape_ccw IN
    [o |-> o, flip |-> flip, ccw |-> ccw, L |-> L]

\* the glyph pixel followed, in logical coordinates, and the canvas of 150 percent
GlyphPx == <<10, 20>>
TextCanvas == <<ScaledSide(PanelW, 150), ScaledSide(PanelH, 150)>>
Overrides == {-1, 0, 1}

\* one iteration of the loop at line 1276: draw_text_ttf for the next item
DrawText ==
    /\ call.fn = "draw_text_ttf"
    /\ Len(result.drawn) < Len(call.texts)
    /\ LET ti == call.texts[Len(result.drawn) + 1]
           r == TextSettings(ti, result.L.text_orient, result.L.text_flip, result.L)
           d == map_ui_xy_fb(GlyphPx[1], GlyphPx[2], r.o, r.flip, r.ccw,
                             TextCanvas[1], TextCanvas[2]) IN
       result' = [called |-> TRUE, L |-> r.L,
                  drawn |-> Append(result.drawn,
                                   [o |-> r.o, flip |-> r.flip, ccw |-> r.ccw,
                                    dx |-> d[1], dy |-> d[2]])]
    /\ UNCHANGED <<call, animVars, pickVars, pixVars, probeVars, tickVars>>
    /\ UNCHANGED <<usbVars, apngVars>>

InitText ==
    /\ UsbInit /\ ApngIdle /\ UnitRest
    /\ call \in [fn : {"draw_text_ttf"},
                  L : [text_orient : {ORIENT_PORTRAIT, ORIENT_LANDSCAPE},
                       text_flip : {0, 1}, text_landscape_ccw : {0, 1}],
                  texts : [1..MaxTexts -> [orient_override : Overrides,
                                           flip_override : Overrides,
                                           landscape_ccw_override : Overrides]]]
    /\ result = [called |-> FALSE, L |-> call.L, drawn |-> <<>>]
    /\ NoTick

SpecText == InitText /\ [][DrawText]_vars

(***************************************************************************)
(* One pixel of a static image from the file to the wire:                  *)
(* load_png_rgba_stb (line 641), blit_png_into_fb (lines 532-539),         *)
(* viewport_to_rgb565 (lines 1059-1064)                                    *)
(***************************************************************************)
\* lines 533-538: the layer alpha scales all four bytes
LayerAlpha(sp, alpha) ==
    IF alpha >= 0 /\ alpha < 255
    THEN [i \in 1..4 |-> ((sp[i] * alpha + 127) \div 255) % 256]
    ELSE sp
\* lines 1059-1062: r, g, b of a canvas pixel
Unpremultiply(px) ==
    LET pa == px[4]
        Un(c) == ((c * 255 + pa \div 2) \div pa) % 256 IN
    IF pa = 0 THEN <<0, 0, 0>>
    ELSE IF pa = 255 THEN <<px[1], px[2], px[3]>>
    ELSE <<Un(px[1]), Un(px[2]), Un(px[3])>>
\* line 1063: ((r&0xF8)<<8)|((g&0xFC)<<3)|(b>>3)
Pack565(c) == (c[1] \div 8) * 2048 + (c[2] \div 4) * 32 + c[3] \div 8
\* line 1064: out[j], out[j+1]
Rgb565Bytes(px) ==
    LET v == Pack565(Unpremultiply(px)) IN <<v % 256, v \div 256>>

ByteMarks == {0, 7, 8, 128, 251, 255}
AlphaMarks == {0, 1, 128, 254, 255}
\* premultiplied pixels already on the canvas
CanvasPixels == {Transparent, <<255, 255, 255, 255>>, <<10, 20, 30, 128>>, <<0, 0, 0, 255>>}

\* the image pixel call.src drawn on the canvas pixel call.dst at panel position
\* (call.x, call.y) and packed; j is the index of its first byte in the output
PackPixel ==
    /\ call.fn = "viewport_to_rgb565" /\ ~result.called
    /\ LET loaded == PremulPx(call.src)
           fbpx == over_premul(call.dst, LayerAlpha(loaded, call.alpha))
           out == Rgb565Bytes(fbpx) IN
       result' = [called |-> TRUE, fb |-> fbpx, j |-> 2 * (call.y * PanelW + call.x),
                  lo |-> out[1], hi |-> out[2]]
    /\ UNCHANGED <<call, animVars, pickVars, pixVars, probeVars, tickVars>>
    /\ UNCHANGED <<usbVars, apngVars>>

InitPack ==
    /\ UsbInit /\ ApngIdle /\ UnitRest
    /\ call \in [fn : {"viewport_to_rgb565"},
                  src : ByteMarks \X ByteMarks \X ByteMarks \X AlphaMarks,
                  alpha : {-1, 128, 255}, dst : CanvasPixels,
                  x : {0, PanelW - 1}, y : {0, PanelH - 1}]
    /\ result = [called |-> FALSE]
    /\ NoTick

SpecPack == InitPack /\ [][PackPixel]_vars

(***************************************************************************)
(* Background position of one tick: main lines 1238-1242 (animated) and    *)
(* 1249-1253 (static)                                                      *)
(***************************************************************************)
\* an unsigned width of 2^31 + 5, held as the int with the same 32 bits
WideCanvas == -INT_MAX + 4
\* a - b leaves the range of int
SubOverflows(a, b) == (b < 0 /\ a > INT_MAX + b) \/ (b > 0 /\ a < -INT_MAX - 1 + b)
\* lines 1240/1242 and 1251/1253 for one axis: bw is the image side as an int
BgAxis(mode, cfg, side_px, bw) ==
    LET b0 == IF mode # 0 THEN CDiv(SubU32(side_px, bw), 2) ELSE cfg
        b1 == IF b0 < -bw THEN -bw ELSE b0 IN
    IF b1 > side_px THEN side_px ELSE b1
\* image sides: bg.stat.w of a decoded PNG, or (int)bg.anim.canvas_w of an APNG
BgSides(is_anim) == {1, PanelW, 500} \cup (IF is_anim THEN {WideCanvas} ELSE {})
BgOffsets == {-5000, -501, -500, -499, -241, -240, -1, 0, 1, 100, 359, 360, 361, 5000}

BgPlace ==
    /\ call.fn = "bg_position" /\ ~result.called
    /\ \E ub \in {u \in BOOLEAN :
                    u => \/ call.bg_x_mode # 0 /\ SubOverflows(call.fbw, call.bw)
                         \/ call.bg_y_mode # 0 /\ SubOverflows(call.fbh, call.bh)} :
          result' = [called |-> TRUE, undefined |-> ub,
                     bgx |-> BgAxis(call.bg_x_mode, call.bg_x, call.fbw, call.bw),
                     bgy |-> BgAxis(call.bg_y_mode, call.bg_y, call.fbh, call.bh)]
    /\ UNCHANGED <<call, animVars, pickVars, pixVars, probeVars, tickVars>>
    /\ UNCHANGED <<usbVars, apngVars>>

InitBg ==
    /\ UsbInit /\ ApngIdle /\ UnitRest
    /\ \E anim \in BOOLEAN, c \in UiCanvases :
          call \in [fn : {"bg_position"}, is_anim : {anim},
                    fbw : {c[1]}, fbh : {c[2]},
                    bw : BgSides(anim), bh : {1, PanelH},
                    bg_x_mode : {0, 1}, bg_x : BgOffsets,
                    bg_y_mode : {0, 1}, bg_y : {-5000, 0, 5000}]
    /\ call.bg_x_mode = 1 => call.bg_x = 0
    /\ call.bg_y_mode = 1 => call.bg_y = 0
    /\ result = [called |-> FALSE]
    /\ NoTick

SpecBg == InitBg /\ [][BgPlace]_vars

(***************************************************************************)
(* main() from the assets to the ticks (lines 1171-1323); out512_retry is  *)
(* reduced to what it returns, the drawing functions to the fact that they *)
(* ran                                                                     *)
(***************************************************************************)
\* what a file is to the two loaders: an animation, a still image, a PNG whose chunks
\* end without a frame and whose image data stb_image cannot decode (cut short inside
\* IDAT, or without IDAT), and a file that cannot be read or is not a PNG
FileKinds == {"apng", "png", "undecodable", "unreadable"}
\* return value of apng_load_precompose: lines 1005, 999-1002, 722-726
ApngStat(kind) ==
    CASE kind = "apng" -> 0
      [] kind \in {"png", "undecodable"} -> 1
      [] OTHER -> -1
\* line 640: stbi_load returns NULL
StbFails(kind) == kind = "undecodable"

Free_Keep(b) == b

\* free(b); run.misuse notes a free of a buffer that is not live
Free(b) == [state |-> "freed", frees |-> b.frees + 1]
Live(b) == b.state = "live"

LoopFrom_TextFirst(k) ==
    IF k <= 1 /\ Len(setup.imgs) > 0 THEN "img"
    ELSE IF k <= 2 /\ setup.n_texts > 0 THEN "text"
    ELSE IF k <= 3 /\ setup.n_overlays > 0 THEN "overlay"
    ELSE "extract"

\* the position after the background (k = 1), the image loop (2), the overlay loop (3)
\* and the text loop (4): the next loop with an iteration, lines 1258, 1273, 1276, 1279
LoopFrom(k) ==
    IF k <= 1 /\ Len(setup.imgs) > 0 THEN "img"
    ELSE IF k <= 2 /\ setup.n_overlays > 0 THEN "overlay"
    ELSE IF k <= 3 /\ setup.n_texts > 0 THEN "text"
    ELSE "extract"
StageOf(p) == CASE p = "img" -> 2 [] p = "overlay" -> 3 [] OTHER -> 4

\* exit() or return from main
TExit(code) ==
    /\ tpc' = "exited"
    /\ run' = [run EXCEPT !.code = code, !.at = tpc]

\* lines 1171-1192
LoadBackground ==
    /\ tpc = "bg_load"
    /\ LET st == ApngStat(setup.bg) IN
       IF st = 0 \/ (st = 1 /\ ~StbFails(setup.bg))
       THEN /\ tpc' = IF Len(setup.imgs) > 0 THEN "img_load" ELSE "usb"
            /\ imgA' = [i \in 1..Len(setup.imgs) |-> FALSE]
            /\ UNCHANGED run
       ELSE /\ TExit(ExitStatus("asset"))
            /\ UNCHANGED imgA
    /\ UNCHANGED <<setup, li, fb, rgb565, ops>>
    /\ UNCHANGED <<animVars, pickVars, pixVars, probeVars, callVars>>
    /\ UNCHANGED <<usbVars, apngVars>>

\* lines 1193-1209, one iteration
LoadImage ==
    /\ tpc = "img_load" /\ li < Len(setup.imgs)
    /\ LET kind == setup.imgs[li + 1]
           st == ApngStat(kind) IN
       IF st = 1 /\ StbFails(kind)
       THEN /\ TExit(ExitStatus("asset"))
            /\ UNCHANGED <<li, imgA>>
       ELSE /\ imgA' = [imgA EXCEPT ![li + 1] = (st \in {0, 1})]
            /\ li' = IF li + 1 = Len(setup.imgs) THEN 0 ELSE li + 1
            /\ tpc' = IF li + 1 = Len(setup.imgs) THEN "usb" ELSE "img_load"
            /\ UNCHANGED run
    /\ UNCHANGED <<setup, fb, rgb565, ops>>
    /\ UNCHANGED <<animVars, pickVars, pixVars, probeVars, callVars>>
    /\ UNCHANGED <<usbVars, apngVars>>

\* lines 1212-1227
OpenDevice ==
    /\ tpc = "usb"
    /\ \E ok \in BOOLEAN :
          IF ok THEN /\ tpc' = "alloc"
                     /\ run' = [run EXCEPT !.opened = TRUE]
          ELSE TExit(ExitStatus("not_found"))
    /\ UNCHANGED <<setup, li, imgA, fb, rgb565, ops>>
    /\ UNCHANGED <<animVars, pickVars, pixVars, probeVars, callVars>>
    /\ UNCHANGED <<usbVars, apngVars>>

\* line 1231; fb and rgb565 are the variables of this iteration
AllocCanvas ==
    /\ tpc = "alloc" /\ run.ticks < MaxFrames
    /\ fb' = [state |-> "live", frees |-> 0]
    /\ rgb565' = NoBuffer
    /\ run' = [run EXCEPT !.leaked = run.leaked \/ Live(fb) \/ Live(rgb565)]
    /\ ops' = << <<"alloc">> >>
    /\ tpc' = "bg"
    /\ UNCHANGED <<setup, li, imgA>>
    /\ UNCHANGED <<animVars, pickVars, pixVars, probeVars, callVars>>
    /\ UNCHANGED <<usbVars, apngVars>>

\* a drawing step of the tick: it writes into fb
Draws(what, next, i) ==
    /\ ops' = IF what = <<>> THEN ops ELSE Append(ops, what)
    /\ run' = [run EXCEPT !.misuse = run.misuse \/ ~Live(fb)]
    /\ tpc' = next
    /\ li' = i
    /\ UNCHANGED <<setup, imgA, fb, rgb565>>
    /\ UNCHANGED <<animVars, pickVars, pixVars, probeVars, callVars>>
    /\ UNCHANGED <<usbVars, apngVars>>

\* lines 1236-1255
DrawBackground ==
    /\ tpc = "bg"
    /\ Draws(<<"bg">>, LoopFrom(1), 0)

\* one iteration of a layer loop that has n iterations
LayerStep(what, n) ==
    IF li + 1 = n THEN Draws(what, LoopFrom(StageOf(tpc)), 0)
    ELSE Draws(what, tpc, li + 1)

\* lines 1258-1270, one iteration
DrawImage ==
    /\ tpc = "img" /\ li < Len(setup.imgs)
    /\ LayerStep(IF imgA[li + 1] THEN <<"img", li>> ELSE <<>>, Len(setup.imgs))

\* line 1273, one iteration
DrawOverlay ==
    /\ tpc = "overlay" /\ li < setup.n_overlays
    /\ LayerStep(<<"overlay", li>>, setup.n_overlays)

\* line 1276, one iteration
DrawTextItem ==
    /\ tpc = "text" /\ li < setup.n_texts
    /\ LayerStep(<<"text", li>>, setup.n_texts)

\* lines 1279-1280
Extract ==
    /\ tpc = "extract"
    /\ rgb565' = [state |-> "live", frees |-> 0]
    /\ ops' = Append(ops, <<"extract">>)
    /\ run' = [run EXCEPT !.misuse = run.misuse \/ ~Live(fb)]
    /\ tpc' = "hdr"
    /\ UNCHANGED <<setup, li, imgA, fb>>
    /\ UNCHANGED <<animVars, pickVars, pixVars, probeVars, callVars>>
    /\ UNCHANGED <<usbVars, apngVars>>

\* what out512_retry does to its caller: return 0, return an error, or end the
\* process in ensure_claim (line 1106)
SendOutcomes == {"ok", "rc", "exit"}

\* free(rgb565); free(fb) of lines 1285, 1290 and 1293-1294
FreeBoth ==
    /\ fb' = Free(fb)
    /\ rgb565' = Free(rgb565)

\* lines 1283-1285
SendHdr ==
    /\ tpc = "hdr"
    /\ ops' = Append(ops, <<"hdr">>)
    /\ \E out \in SendOutcomes :
          CASE out = "ok" ->
                 /\ run' = [run EXCEPT !.packets = run.packets + 1, !.toff = 0]
                 /\ tpc' = "data"
                 /\ UNCHANGED <<fb, rgb565>>
            [] out = "rc" ->
                 /\ FreeBoth
                 /\ run' = [run EXCEPT !.misuse = run.misuse \/ ~Live(fb) \/ ~Live(rgb565)]
                 /\ tpc' = "tx_done"
            [] OTHER ->
                 /\ TExit(ExitStatus("claim"))
                 /\ UNCHANGED <<fb, rgb565>>
    /\ UNCHANGED <<setup, li, imgA>>
    /\ UNCHANGED <<animVars, pickVars, pixVars, probeVars, callVars>>
    /\ UNCHANGED <<usbVars, apngVars>>

\* lines 1287-1292, one iteration; the packet is read from rgb565 + off
SendPacket ==
    /\ tpc = "data" /\ run.toff < FramePackets
    /\ ops' = Append(ops, <<"data", run.toff>>)
    /\ \E out \in SendOutcomes :
          CASE out = "ok" ->
                 /\ run' = [run EXCEPT !.packets = run.packets + 1,
                                       !.toff = run.toff + 1,
                                       !.misuse = run.misuse \/ ~Live(rgb565)]
                 /\ tpc' = IF run.toff + 1 = FramePackets THEN "free" ELSE "data"
                 /\ UNCHANGED <<fb, rgb565>>
            [] out = "rc" ->
                 /\ FreeBoth
                 /\ run' = [run EXCEPT !.misuse = run.misuse \/ ~Live(fb) \/ ~Live(rgb565)]
                 /\ tpc' = "tx_done"
            [] OTHER ->
                 /\ TExit(ExitStatus("claim"))
                 /\ UNCHANGED <<fb, rgb565>>
    /\ UNCHANGED <<setup, li, imgA>>
    /\ UNCHANGED <<animVars, pickVars, pixVars, probeVars, callVars>>
    /\ UNCHANGED <<usbVars, apngVars>>

\* lines 1293-1306: the frees, the sleep, g_stop and the loop condition
TickEnd ==
    /\ tpc = "free"
    /\ FreeBoth
    /\ run' = [run EXCEPT !.ticks = run.ticks + 1,
                          !.misuse = run.misuse \/ ~Live(fb) \/ ~Live(rgb565)]
    /\ \E stop \in BOOLEAN :
          tpc' = IF stop \/ ~setup.loop THEN "tx_done" ELSE "alloc"
    /\ UNCHANGED <<setup, li, imgA, ops>>
    /\ UNCHANGED <<animVars, pickVars, pixVars, probeVars, callVars>>
    /\ UNCHANGED <<usbVars, apngVars>>

\* lines 1309-1323
TxDone ==
    /\ tpc = "tx_done"
    /\ TExit(ExitStatus("done"))
    /\ UNCHANGED <<setup, li, imgA, fb, rgb565, ops>>
    /\ UNCHANGED <<animVars, pickVars, pixVars, probeVars, callVars>>
    /\ UNCHANGED <<usbVars, apngVars>>

InitTick ==
    /\ UsbInit /\ ApngIdle /\ UnitRest /\ NoCall
    /\ setup \in [bg : FileKinds,
                   imgs : UNION {[1..n -> FileKinds] : n \in 0..MaxLayers},
                   n_overlays : {0, 2}, n_texts : {0, 2}, loop : BOOLEAN]
    /\ tpc = "bg_load" /\ li = 0 /\ imgA = <<>>
    /\ fb = NoBuffer /\ rgb565 = NoBuffer /\ ops = <<>> /\ run = NoRun

NextTick ==
    \/ LoadBackground \/ LoadImage \/ OpenDevice
    \/ AllocCanvas \/ DrawBackground \/ DrawImage \/ DrawOverlay \/ DrawTextItem
    \/ Extract \/ SendHdr \/ SendPacket \/ TickEnd \/ TxDone

SpecTick == InitTick /\ [][NextTick]_vars

(***************************************************************************)
(* The two finalize blocks of apng_load_precompose applied to the same     *)
(* open frame and the same loader state: lines 774-884 (at a following     *)
(* fcTL) and lines 920-983 (at IEND).  The helper functions both blocks    *)
(* call are shared; what each block spells out inline is translated once   *)
(* per block.                                                              *)
(***************************************************************************)

\* what the open frame collected: nothing, bytes that do not decode, bytes that
\* decode to another size, or one of the decodable fills
OpenData == {"empty", "undecodable", "other_size"} \cup Fills

\* decode_png_rgba_lenient on the PNG rebuilt around the frame's data (lines 808-811,
\* 929-932)
DecodeOpen(data, f) ==
    IF data = "undecodable" THEN [derr |-> 1, fw |-> 0, fh |-> 0, fr |-> <<>>]
    ELSE IF data = "other_size"
    THEN [derr |-> 0, fw |-> f.w + 1, fh |-> f.h, fr |-> Decoded("ramp", (f.w + 1) * f.h)]
    ELSE [derr |-> 0, fw |-> f.w, fh |-> f.h, fr |-> Decoded(data, f.w * f.h)]

\* calloc of lines 820-821 and 940-941
Calloc(n) == [i \in 0..(n - 1) |-> Transparent]

\* the loader state a frame is finalized in: before any frame was composed (no
\* canvas yet), or after one frame that left a ramp on the canvas and a half
\* transparent snapshot
LoaderStates == {"first", "later"}
CanvasOf(ls, n) == IF ls = "first" THEN <<>> ELSE premultiply_rgba(Decoded("ramp", n))
PrevOf(ls, n) == IF ls = "first" THEN <<>> ELSE premultiply_rgba(Decoded("half", n))
AnimOf(ls) ==
    IF ls = "first" THEN [num_frames |-> 0, total_ms |-> 0, delay_ms |-> <<>>]
    ELSE [num_frames |-> 1, total_ms |-> 100, delay_ms |-> <<100>>]

\* goto fail (lines 1009-1013)
FinalizeFailed == [state |-> "failed"]
\* an access outside the canvas or the decoded frame
FinalizeUndefined == [state |-> "undefined"]

\* lines 774-884: the frame is finalized because another fcTL follows
FinalizeAtFcTL(c) ==
    LET f == c.cur
        n == c.canvas_w * c.canvas_h
        d == DecodeOpen(c.data, f)
        cv0 == IF c.ls = "first" THEN Calloc(n) ELSE CanvasOf(c.ls, n)
        cp0 == IF c.ls = "first" THEN Calloc(n) ELSE PrevOf(c.ls, n)
        pm == premultiply_rgba(d.fr)
        px == IF c.rotate180_all THEN rotate180_rgba(pm, d.fw * d.fh) ELSE pm
        snap == IF f.dispose_op = 2 THEN cv0 ELSE cp0
        maxw == Clamp(f.w, f.x, c.canvas_w)
        maxh == Clamp(f.h, f.y, c.canvas_h)
        ms == DelayMs(f.delay_num, f.delay_den)
        A0 == AnimOf(c.ls)
    IN  IF c.data = "empty"
        THEN [state |-> "skipped", open |-> FALSE, A |-> A0,
              canvas |-> CanvasOf(c.ls, n), canvas_prev |-> PrevOf(c.ls, n)]
        ELSE IF d.derr # 0 THEN FinalizeFailed
        ELSE IF d.fw # f.w \/ d.fh # f.h THEN FinalizeFailed
        ELSE IF LoopRuns(maxw, maxh) /\ ~LoopInBounds(f, c.canvas_w, c.canvas_h, maxw, maxh)
        THEN FinalizeUndefined
        ELSE LET blended == IF LoopRuns(maxw, maxh)
                            THEN BlendLoop(cv0, px, f, c.canvas_w, maxw, 0, maxw * maxh - 1)
                            ELSE cv0
             IN  [state |-> "stored", open |-> FALSE,
                  frame |-> blended, ms |-> ms,
                  A |-> [num_frames |-> A0.num_frames + 1,
                         total_ms |-> AddU32(A0.total_ms, ms),
                         delay_ms |-> Append(A0.delay_ms, ms)],
                  canvas |-> Dispose(blended, snap, f, c.canvas_w, maxw, maxh),
                  canvas_prev |-> snap]

\* lines 949-951
EndClamp(len, pos, limit) == IF Sum64Gt(pos, len, limit) THEN SubU32(limit, pos) ELSE len

\* lines 953-958: iteration k of the two nested loops
EndDstIndex(f, cw, k, maxw) == AddU32(f.y, k \div maxw) * cw + AddU32(f.x, (k % maxw))
EndSrcIndex(f, k, maxw) == (k \div maxw) * f.w + (k % maxw)

\* lines 959-960
EndBlendPx(dst, src, blend_op) == IF blend_op = 0 THEN src ELSE over_premul(dst, src)

EndLoopInBounds(f, cw, chh, maxw, maxh) ==
    /\ maxw >= 1 /\ maxw <= f.w * f.h
    /\ maxh >= 1 /\ maxh <= f.w * f.h
    /\ \A k \in 0..(maxw * maxh - 1) :
         /\ EndDstIndex(f, cw, k, maxw) \in 0..(cw * chh - 1)
         /\ EndSrcIndex(f, k, maxw) \in 0..(f.w * f.h - 1)

\* lines 953-962: the iterations lo..hi of the blend loop, in order
RECURSIVE EndBlendLoop(_, _, _, _, _, _, _)
EndBlendLoop(cv, px, f, cw, maxw, lo, hi) ==
    IF lo > hi THEN cv
    ELSE IF lo = hi
    THEN LET d == EndDstIndex(f, cw, lo, maxw) IN
         [cv EXCEPT ![d] = EndBlendPx(cv[d], px[EndSrcIndex(f, lo, maxw)], f.blend_op)]
    ELSE LET mid == (lo + hi) \div 2
             left == EndBlendLoop(cv, px, f, cw, maxw, lo, mid) IN
         EndBlendLoop(left, px, f, cw, maxw, mid + 1, hi)

\* a delay that drops the rounding term den/2
EndDelayMs_Truncating(delay_num, delay_den) ==
    LET den == IF delay_den # 0 THEN delay_den ELSE 100
        num == IF delay_num # 0 THEN delay_num ELSE 1
        ms == (1000 * num) \div den IN
    IF ms < 10 THEN 10 ELSE ms

\* lines 970-972
EndDelayMs(delay_num, delay_den) ==
    LET den == IF delay_den # 0 THEN delay_den ELSE 100
        num == IF delay_num # 0 THEN delay_num ELSE 1
        ms == (1000 * num + den \div 2) \div den IN
    IF ms < 10 THEN 10 ELSE ms

\* lines 976-980
EndDispose(cv, snap, f, cw, maxw, maxh) ==
    IF f.dispose_op = 1
    THEN LET hit == IF maxw # 0 /\ maxh # 0
                    THEN {EndDstIndex(f, cw, k, maxw) : k \in 0..(maxw * maxh - 1)} ELSE {} IN
         [i \in DOMAIN cv |-> IF i \in hit THEN Transparent ELSE cv[i]]
    ELSE IF f.dispose_op = 2 THEN snap
    ELSE cv

\* lines 920-983: the frame is finalized because IEND was read
FinalizeAtIEND(c) ==
    LET f == c.cur
        n == c.canvas_w * c.canvas_h
        d == DecodeOpen(c.data, f)
        cv0 == IF c.ls = "first" THEN Calloc(n) ELSE CanvasOf(c.ls, n)
        cp0 == IF c.ls = "first" THEN Calloc(n) ELSE PrevOf(c.ls, n)
        pm == premultiply_rgba(d.fr)
        px == IF c.rotate180_all THEN rotate180_rgba(pm, d.fw * d.fh) ELSE pm
        snap == IF f.dispose_op = 2 THEN cv0 ELSE cp0
        maxw == EndClamp(f.w, f.x, c.canvas_w)
        maxh == EndClamp(f.h, f.y, c.canvas_h)
        ms == EndDelayMs(f.delay_num, f.delay_den)
        A0 == AnimOf(c.ls)
    IN  IF ~(c.data # "empty")
        THEN [state |-> "skipped", open |-> TRUE, A |-> A0,
              canvas |-> CanvasOf(c.ls, n), canvas_prev |-> PrevOf(c.ls, n)]
        ELSE IF d.derr # 0 THEN FinalizeFailed
        ELSE IF d.fw # f.w \/ d.fh # f.h THEN FinalizeFailed
        ELSE IF maxw # 0 /\ maxh # 0 /\ ~EndLoopInBounds(f, c.canvas_w, c.canvas_h, maxw, maxh)
        THEN FinalizeUndefined
        ELSE LET blended == IF maxw # 0 /\ maxh # 0
                            THEN EndBlendLoop(cv0, px, f, c.canvas_w, maxw, 0, maxw * maxh - 1)
                            ELSE cv0
             IN  [state |-> "stored", open |-> FALSE,
                  frame |-> blended, ms |-> ms,
                  A |-> [num_frames |-> A0.num_frames + 1,
                         total_ms |-> AddU32(A0.total_ms, ms),
                         delay_ms |-> Append(A0.delay_ms, ms)],
                  canvas |-> EndDispose(blended, snap, f, c.canvas_w, maxw, maxh),
                  canvas_prev |-> snap]

\* the open frames: any size up to the canvas bound, placed inside, at the edge or
\* at an offset that wraps
OpenFrames ==
    [w : Sides, h : Sides, x : {0, 1, UINT32_MAX}, y : {0, 1},
     dispose_op : 0..2, blend_op : 0..1, delay_num : {0, 3}, delay_den : {0, 7}]

\* the frame is closed by an fcTL
CloseAtFcTL ==
    /\ call.fn = "finalize" /\ ~result.called
    /\ result' = [called |-> TRUE, both |-> FALSE, fctl |-> FinalizeAtFcTL(call)]
    /\ UNCHANGED <<call, animVars, pickVars, pixVars, probeVars, tickVars>>
    /\ UNCHANGED <<usbVars, apngVars>>

\* the same frame in the same loader state is closed by IEND
CloseAtIEND ==
    /\ call.fn = "finalize" /\ result.called /\ ~result.both
    /\ result' = [called |-> TRUE, both |-> TRUE, fctl |-> result.fctl,
                  iend |-> FinalizeAtIEND(call)]
    /\ UNCHANGED <<call, animVars, pickVars, pixVars, probeVars, tickVars>>
    /\ UNCHANGED <<usbVars, apngVars>>

InitFinalize ==
    /\ UsbInit /\ ApngIdle /\ UnitRest /\ NoTick
    /\ call \in [fn : {"finalize"}, cur : OpenFrames, data : OpenData,
                 canvas_w : Sides, canvas_h : Sides, ls : LoaderStates,
                 rotate180_all : BOOLEAN]
    /\ result = [called |-> FALSE]

NextFinalize == CloseAtFcTL \/ CloseAtIEND

SpecFinalize == InitFinalize /\ [][NextFinalize]_vars

(***************************************************************************)
(* One frame on the wire at its real size: build_header_fixed (lines       *)
(* 1071-1081), the packet of out512_retry (lines 1127-1130) and the send   *)
(* of main (lines 1223, 1283-1294).  out512_retry is reduced to the packet *)
(* it builds, the length it passes to the transfers and what it returns.   *)
(***************************************************************************)

\* a header whose length field counts pixels instead of bytes
build_header_fixed_Pixels ==
    [k \in 1..PACK |->
        CASE k = 1 -> 218 [] k = 2 -> 219 [] k = 3 -> 220 [] k = 4 -> 221
          [] k = 5 -> 2 [] k = 7 -> 1
          [] k = 9 -> 240 [] k = 11 -> 64 [] k = 12 -> 1
          [] k = 13 -> 2
          [] k = 24 -> 44 [] k = 25 -> 1
          [] k = 30 -> 8
          [] OTHER -> 0]

\* lines 1072-1080; element k of the sequence is hdr[k - 1]
build_header_fixed ==
    [k \in 1..PACK |->
        CASE k = 1 -> 218 [] k = 2 -> 219 [] k = 3 -> 220 [] k = 4 -> 221
          [] k = 5 -> 2 [] k = 7 -> 1
          [] k = 9 -> 240 [] k = 11 -> 64 [] k = 12 -> 1
          [] k = 13 -> 2
          [] k = 24 -> 88 [] k = 25 -> 2
          [] k = 30 -> 8
          [] OTHER -> 0]

\* line 1127: pkt is zeroed, len is capped at PACK and the first len bytes of buf
\* are copied; buf is the bytes the caller's pointer leads to, from index 0
Packet(buf, len) ==
    LET n == IF len > PACK THEN PACK ELSE len
    IN  [k \in 1..PACK |-> IF k <= n THEN buf[k - 1] ELSE 0]

\* lines 1129-1130: every transfer is given pkt and the length PACK
Submit(src, from, len, buf) ==
    [src |-> src, from |-> from, len |-> len, xlen |-> PACK, pkt |-> Packet(buf, len)]

\* the payload of a frame: byte j of the rgb565 buffer of frame f (never zero, so
\* that padding is told from pixels)
Rgb565At(f, j) == 1 + ((j + 7 * f) % 251)

\* line 1289
ChunkLen(o) == IF FRAME_LEN - o >= PACK THEN PACK ELSE FRAME_LEN - o

NoPacket == [called |-> FALSE]

\* line 1223 and the first tick up to line 1280
FrameBegin ==
    /\ call.fn = "frame" /\ ~result.called
    /\ result' = [called |-> TRUE, hdr |-> build_header_fixed, at |-> "hdr",
                  frame |-> 0, off |-> 0, sent |-> 0, log |-> <<>>, last |-> NoPacket]
    /\ UNCHANGED <<call, animVars, pickVars, pixVars, probeVars, tickVars>>
    /\ UNCHANGED <<usbVars, apngVars>>

\* lines 1283-1285
FrameHdr ==
    /\ call.fn = "frame" /\ result.called /\ result.at = "hdr"
    /\ LET s == Submit("hdr", 0, PACK, [i \in 0..(PACK - 1) |-> result.hdr[i + 1]])
       IN  \E out \in SendOutcomes :
              result' = [result EXCEPT
                  !.log = Append(result.log, [src |-> s.src, from |-> s.from,
                                              len |-> s.len, xlen |-> s.xlen]),
                  !.last = s,
                  !.off = 0,
                  !.at = CASE out = "ok" -> "data" [] out = "rc" -> "tx_done"
                           [] OTHER -> "exited"]
    /\ UNCHANGED <<call, animVars, pickVars, pixVars, probeVars, tickVars>>
    /\ UNCHANGED <<usbVars, apngVars>>

\* lines 1287-1292, one iteration
FramePacket ==
    /\ call.fn = "frame" /\ result.called /\ result.at = "data"
    /\ result.off < FRAME_LEN
    /\ LET n == ChunkLen(result.off)
           s == Submit("rgb565", result.off, n,
                       [i \in 0..(n - 1) |-> Rgb565At(result.frame, result.off + i)])
       IN  \E out \in SendOutcomes :
              result' = [result EXCEPT
                  !.log = Append(result.log, [src |-> s.src, from |-> s.from,
                                              len |-> s.len, xlen |-> s.xlen]),
                  !.last = s,
                  !.sent = IF out = "ok" THEN result.sent + n ELSE result.sent,
                  !.off = IF out = "ok" THEN result.off + PACK ELSE result.off,
                  !.at = CASE out = "ok" -> "data" [] out = "rc" -> "tx_done"
                           [] OTHER -> "exited"]
    /\ UNCHANGED <<call, animVars, pickVars, pixVars, probeVars, tickVars>>
    /\ UNCHANGED <<usbVars, apngVars>>

\* lines 1287 (loop exit), 1293-1306: the frame is complete
FrameDone ==
    /\ call.fn = "frame" /\ result.called /\ result.at = "data"
    /\ result.off >= FRAME_LEN
    /\ result' = [result EXCEPT !.at = "free"]
    /\ UNCHANGED <<call, animVars, pickVars, pixVars, probeVars, tickVars>>
    /\ UNCHANGED <<usbVars, apngVars>>

\* line 1306 and the next tick up to line 1280: the same hdr, a new rgb565
FrameNext ==
    /\ call.fn = "frame" /\ result.called /\ result.at = "free"
    /\ result.frame + 1 < MaxFrames
    /\ \E stop \in BOOLEAN :
          result' = IF stop \/ ~call.loop
                    THEN [result EXCEPT !.at = "tx_done"]
                    ELSE [result EXCEPT !.at = "hdr", !.frame = result.frame + 1,
                                        !.off = 0, !.sent = 0, !.log = <<>>,
                                        !.last = NoPacket]
    /\ UNCHANGED <<call, animVars, pickVars, pixVars, probeVars, tickVars>>
    /\ UNCHANGED <<usbVars, apngVars>>

InitFrame ==
    /\ UsbInit /\ ApngIdle /\ UnitRest /\ NoTick
    /\ call \in [fn : {"frame"}, loop : BOOLEAN]
    /\ result = [called |-> FALSE]

NextFrame == FrameBegin \/ FrameHdr \/ FramePacket \/ FrameDone \/ FrameNext

SpecFrame == InitFrame /\ [][NextFrame]_vars

(***************************************************************************)
(* Properties of the transport and the main loop (checked under Spec)      *)
(***************************************************************************)
Last(q) == q[Len(q)]
IsPrefix(p, q) == Len(p) <= Len(q) /\ \A k \in 1..Len(p) : p[k] = q[k]
Ladder == <<"clear_halt", "reset", "reopen">>
ResetCalls == <<"reset", "pick", "claim">>
ReopenCalls == <<"close", "exit", "init", "open", "pick", "claim">>
StepDone == rpc \notin {"recover", "reopen"}

\* C2 as stated: at most 4 attempts per packet; the recovery steps after the 1st, 2nd
\* and 3rd failed attempt are clear-halt only, then reset + re-discovery + re-claim,
\* then close-and-reopen + re-discovery + re-claim; each of them is followed by a retry.
C2_LadderAsClaimed ==
    /\ nInt <= MaxAttempts
    /\ \A k \in 1..Len(steps) : k <= 3 => steps[k] = Ladder[k]
    /\ Len(steps) = 1 => calls = <<"clear_halt">>
    /\ Len(steps) = 2 => calls = ResetCalls
    /\ Len(steps) = 3 /\ StepDone => calls = ReopenCalls
    /\ Len(steps) \in 1..3 /\ rpc \in {"ret", "idle"} => nInt = Len(steps) + 1

\* C2 (amended): at most 4 attempts per packet; the steps after the 1st, 2nd and 3rd
\* failed attempt are clear-halt, reset, reopen in this order; the reset is followed by
\* re-discovery only if it succeeded and by the re-claim only if discovery succeeded;
\* the reopen re-discovers and re-claims on a device it could open; each of the three
\* steps is followed by a retry unless the reopen obtained no device (the error is
\* returned at once) or the re-claim failed (the process exits).
C2_Ladder ==
    /\ nInt <= MaxAttempts
    /\ \A k \in 1..Len(steps) : k <= 3 => steps[k] = Ladder[k]
    /\ Len(steps) = 1 => calls = <<"clear_halt">>
    /\ Len(steps) = 2 => IsPrefix(calls, ResetCalls) /\ Len(calls) >= 1
    /\ Len(steps) = 3 => IsPrefix(calls, ReopenCalls) /\ Len(calls) >= 3
    /\ Len(steps) \in 1..3 /\ rpc \in {"ret", "idle"} /\ nInt # Len(steps) + 1
         => \/ Len(steps) = 3 /\ h = 0 /\ ret # 0 /\ ~IsPrefix(ReopenCalls, calls)
            \/ pc = "exited" /\ "claim" \in err /\ Last(calls) = "claim"

\* a packet that went through all three rungs and was then sent by the retry
C2_Witness ==
    /\ rpc = "ret" /\ ret = 0 /\ nInt = 4
    /\ steps = Ladder /\ calls = ReopenCalls

\* C3 as stated: after the 4th failed attempt nothing more is done: at most three
\* recovery steps per packet and each kind of step at most once.
C3_FourthFailureAborts ==
    /\ Len(steps) <= 3
    /\ \A j, k \in 1..Len(steps) : steps[j] = steps[k] => j = k

\* the order in which a correct run submits packets: entry k (1-based)
PacketsPerFrame == (frame_len + PACK - 1) \div PACK
Canon(k) ==
    LET f == (k - 1) \div (PacketsPerFrame + 1)
        r == (k - 1) % (PacketsPerFrame + 1) IN
    <<f, IF r = 0 THEN -1 ELSE (r - 1) * PACK>>

\* C4: the packets are submitted in the order header, payload 0, 512, ... of frame 0,
\* then of frame 1, ..., none skipped or re-ordered, and a packet is submitted only
\* after every packet before it was reported sent.
C4_PacketOrder ==
    /\ \A k \in 1..Len(wire) : wire[k] = Canon(k)
    /\ \A k \in 1..(Len(wire) - 1) : wire[k] \in acked

\* the second frame's header goes out after a recovery replaced the device handle
C4_Witness ==
    /\ Len(wire) > PacketsPerFrame + 1
    /\ nOpens > 1
    /\ rpc = "ret" /\ ret = 0

\* the failure kind a finished run ended with
FailureKind ==
    IF "layout" \in err THEN "config"
    ELSE IF "not_found" \in err THEN "not_found"
    ELSE IF failed THEN "transport"
    ELSE "none"
\* the exit status main gives each of the three failure kinds
StatusOfKind(k) == IF k = "transport" THEN ExitStatus("done") ELSE ExitStatus(k)

\* C5 as stated: the exit status of a run that ended with a configuration failure, with
\* device-not-found or with a transport failure differs from the status the program
\* gives the other two kinds.
C5_ExitStatusDistinguishes ==
    pc = "exited" /\ FailureKind # "none"
      => /\ exit_code = StatusOfKind(FailureKind)
         /\ \A k \in {"config", "not_found", "transport"} \ {FailureKind} :
              exit_code # StatusOfKind(k)

FrameEntries(f) == {<<f, -1>>} \cup {<<f, o * PACK>> : o \in 0..(PacketsPerFrame - 1)}

\* C6: a stop request never cancels a frame: the loop is left only after a failed send
\* or at the end of a frame whose packets were all sent; at most one frame is started
\* after the request; a run that left the loop at the g_stop test released the
\* interface and closed the device.
C6_StopBetweenFrames ==
    /\ startedAfterStop <= 1
    /\ pc = "tx_done" \/ (pc = "exited" /\ printed)
         => \/ failed
            \/ /\ frame_idx >= 1
               /\ FrameEntries(frame_idx - 1) \subseteq acked
               /\ \A k \in 1..Len(wire) : wire[k][1] < frame_idx
    /\ stopSeen => ~failed /\ g_stop
    /\ stopSeen /\ pc = "exited"
         => released = <<h, iface>> /\ openHandles = {} /\ ctx = 0

\* continuous mode, the request arrived before a frame started, and the run stopped
\* at the check after that frame
C6_Witness ==
    /\ pc = "exited" /\ stopSeen
    /\ startedAfterStop = 1
    /\ layout.once = 0
    /\ nOpens > 1

\* C7: a packet whose first attempt failed and whose second attempt succeeded is
\* reported sent after the clear-halt alone, and the session is the one it started with.
C7_StallThenSuccess ==
    rpc = "ret" /\ nInt = 2 /\ ret = 0
      => /\ steps = <<"clear_halt">>
         /\ calls = <<"clear_halt">>
         /\ [h |-> h, iface |-> iface, ep |-> ep_out] = sess0
         /\ xferArgs = [h |-> sess0.h, ep |-> sess0.ep]

C7_Witness ==
    /\ rpc = "ret" /\ nInt = 2 /\ ret = 0
    /\ pc = "hdr"

\* C8: in an attempt the bulk transfer is issued exactly when the interrupt transfer
\* returned PIPE or TIMEOUT; the attempt succeeds exactly when the last transfer
\* returned 0 with 512 bytes; a failed attempt goes to recovery; out512_retry returns
\* 0 exactly when an attempt succeeded.
C8_AttemptOutcome ==
    LET last == IF bulkRes # NoXfer THEN bulkRes ELSE intRes
        good == last.r = LIBUSB_SUCCESS /\ last.n = 512 IN
    /\ rpc \in {"recover", "ret"} /\ intRes # NoXfer
         => /\ bulkRes # NoXfer <=> intRes.r \in {LIBUSB_ERROR_PIPE, LIBUSB_ERROR_TIMEOUT}
            /\ good <=> rpc = "ret" /\ ret = 0
            /\ ~good => rpc = "recover"
    /\ rpc = "recover" => intRes # NoXfer
    /\ rpc = "ret" => (ret = 0 <=> intRes # NoXfer /\ good)

\* a packet sent by the bulk fallback after a stalled interrupt transfer
C8_Witness ==
    /\ rpc = "ret" /\ ret = 0
    /\ intRes.r = LIBUSB_ERROR_PIPE
    /\ bulkRes = [r |-> LIBUSB_SUCCESS, n |-> PACK]

\* C9: every transfer is made on the handle opened last and to the endpoint of the
\* latest successful discovery, and the interface released at shutdown is the one of
\* the latest successful discovery on that handle.
C9_UpdatedSession ==
    /\ xferArgs # NoArgs => xferArgs.ep = disc.ep /\ xferArgs.h = h
    /\ h # 0 => h = nOpens
    /\ rpc = "attempt" /\ pc # "exited" => ep_out = disc.ep /\ iface = disc.iface
    /\ released # <<>> => released = <<nOpens, disc.iface>>

\* a transfer after recovery changed both the handle and the endpoint
C9_Witness ==
    /\ xferArgs # NoArgs
    /\ xferArgs.h # sess0.h
    /\ xferArgs.ep # sess0.ep
    /\ intRes.r = LIBUSB_SUCCESS

\* C10: once a send has failed no further packet is transmitted, the failure is on
\* stderr, no frame is started, and the run ends with the session released.
C10_FailureIsFatal ==
    /\ rpc = "idle" /\ wire # <<>> /\ Last(wire) \notin acked /\ "claim" \notin err
         => failed
    /\ failed
         => /\ xfersAfterFail = 0
            /\ pc \in {"tx_done", "exited"}
            /\ Last(wire) \notin acked
            /\ err \cap {"header send failed", "data send failed"} # {}
    /\ failed /\ pc = "exited"
         => /\ h = 0 \/ released = <<h, iface>>
            /\ openHandles = {} /\ ctx = 0

\* a payload packet failed after the header went out; the run ended
C10_Witness ==
    /\ failed /\ pc = "exited"
    /\ "data send failed" \in err
    /\ released # <<>>

(***************************************************************************)
(* Properties of apng_load_precompose (checked under SpecApng)             *)
(***************************************************************************)
\* C1 as stated: every cell written while compositing a frame and every cell zeroed by
\* BACKGROUND disposal lies inside [0,canvas_w) x [0,canvas_h), whatever the 32-bit
\* x, y, width and height of the frame-control chunk are.
C1_WritesInsideCanvas ==
    wroteOn # <<>> =>
        \A c \in wrote \cup cleared : InCanvas(c, wroteOn[1], wroteOn[2])

\* a step of the chunk loop that read one chunk
ReadsChunk == aPc = "chunks" /\ nChunks' = nChunks + 1
\* everything but the chunk counter (and the note of the chunk read) stays as it was
NoStateChange ==
    UNCHANGED <<aPc, aRes, header, saw_acTL, acTL_plays, cur, is_apng, bg, canvasHist, num_frames>>

\* C15: an fdAT with no frame open changes no state; an fdAT with a frame open appends
\* its data less the 4-byte sequence number to that frame; an IDAT with no frame open
\* opens the default frame (full canvas at the origin, dispose NONE, blend SOURCE) and
\* appends its data; an IDAT with a frame open appends to that frame.
C15_ChunkMachine ==
    [][ReadsChunk =>
         /\ (chunk'.type = "fdAT" /\ ~cur.in_use) => NoStateChange
         /\ (chunk'.type = "fdAT" /\ cur.in_use /\ chunk'.dlen >= 4) =>
                /\ cur' = [cur EXCEPT !.idata = @ + chunk'.dlen - 4]
                /\ aPc' = "chunks" /\ num_frames' = num_frames
         /\ (chunk'.type = "IDAT" /\ ~cur.in_use) =>
                /\ cur'.in_use
                /\ cur'.w = canvas_w /\ cur'.h = canvas_h /\ cur'.x = 0 /\ cur'.y = 0
                /\ cur'.dispose_op = 0 /\ cur'.blend_op = 0
                /\ cur'.idata = chunk'.dlen
                /\ aPc' = "chunks" /\ num_frames' = num_frames
         /\ (chunk'.type = "IDAT" /\ cur.in_use) =>
                /\ cur' = [cur EXCEPT !.idata = @ + chunk'.dlen]
                /\ aPc' = "chunks" /\ num_frames' = num_frames]_vars

\* an fdAT of 5 bytes has added its one byte of image data to the frame an fcTL opened
C15_Witness ==
    /\ chunk.type = "fdAT" /\ chunk.dlen = 5
    /\ cur.in_use /\ cur.idata = 1 /\ cur.delay_num = 0

\* the loader returned (and main may have looked at the result)
Returned == aPc \in {"done", "used"}

\* C16: an fcTL declaring width 0 or height 0 ends the load with the parse failure -1
\* and no frames, and no frame of that chunk is opened with other dimensions.
C16_ZeroSizeFails ==
    (/\ chunk.type = "fcTL" /\ chunk.dlen = 26
     /\ chunk.w = 0 \/ chunk.h = 0
     /\ aPc # "crashed") =>
        /\ Returned /\ aRes = -1
        /\ num_frames = 0 /\ ~is_apng
        /\ bg \in {"none", "failed"}
        /\ cur.in_use => cur.idata > 0

\* a zero-height fcTL met after a frame had been composed
C16_Witness ==
    /\ chunk.type = "fcTL" /\ chunk.dlen = 26 /\ chunk.h = 0 /\ chunk.w # 0
    /\ wroteOn # <<>>
    /\ aRes = -1

\* C17: the loader returns 1 with no frames when no acTL was seen or no frame was
\* produced, and main then takes the static decode (whose stbi_load gives the
\* background, or ends the run with "stbi_load failed" for a file it cannot decode);
\* it returns 0 only with an acTL seen and at least one frame.
C17_NotAnimatedSignal ==
    [][(aPc = "finish" /\ aPc' = "done" =>
            IF ~saw_acTL \/ num_frames = 0
            THEN aRes' = 1 /\ num_frames' = 0 /\ ~is_apng'
            ELSE aRes' = 0 /\ num_frames' = num_frames /\ is_apng')
       /\ (aPc = "done" /\ aPc' = "used" =>
            /\ aRes = 1 => (bg' = "static" \/ "stbi_load failed" \in err')
            /\ aRes = 0 => (bg' = "animated" /\ saw_acTL /\ num_frames >= 1)
            /\ aRes = -1 => bg' = "failed")]_vars

\* a file with frames but no acTL was handed to the static decode
C17_Witness ==
    /\ aPc = "used" /\ bg = "static"
    /\ ~saw_acTL /\ wroteOn # <<>>

(***************************************************************************)
(* Properties of the stored delays (checked under SpecDelay)               *)
(***************************************************************************)
\* r is 1000*num/den rounded to the nearest integer, halves upwards
IsRounded(r, num, den) ==
    /\ 2 * r * den <= 2000 * num + den
    /\ 2000 * num + den < 2 * (r + 1) * den

\* C18: the delay stored for delay_num / delay_den is max(10, round(1000*num/den)) ms
\* with denominator 0 read as 100 and numerator 0 read as 1, so it is at least 10 ms.
C18_DelayFormula ==
    A.num_frames >= 1 =>
        LET num == IF lastDelay.num = 0 THEN 1 ELSE lastDelay.num
            den == IF lastDelay.den = 0 THEN 100 ELSE lastDelay.den
            ms == A.delay_ms[A.num_frames] IN
        /\ ms = lastDelay.ms
        /\ ms >= 10
        /\ ms > 10 => IsRounded(ms, num, den)
        /\ ms = 10 => \E r \in 0..10 : IsRounded(r, num, den)

\* a delay above the floor whose quotient is rounded upwards (2/3 s = 667 ms)
C18_Witness ==
    /\ A.num_frames >= 1
    /\ lastDelay = [num |-> 2, den |-> 3, ms |-> 667]

\* C19 as stated: an animation with at least one frame has every delay >= 10 ms and a
\* 32-bit total that equals the sum of its delays and is not 0, for any number of frames.
C19_TotalIsSum ==
    A.num_frames >= 1 =>
        /\ \A k \in 1..A.num_frames : A.delay_ms[k] >= 10
        /\ wraps = 0
        /\ A.total_ms # 0

(***************************************************************************)
(* Properties of apng_pick_frame (checked under SpecPick)                  *)
(***************************************************************************)
UnitSpeed == pickIn.speed \in {0, 1}
Playable == pickIn.called /\ UnitSpeed /\ A.num_frames > 0 /\ A.total_ms # 0
PlayLimit == EffLoops(A, pickIn.loop_mode, pickIn.loop_N)
FinalFrame == [idx |-> A.num_frames - 1, rem |-> 0]

RECURSIVE RangeSum(_, _, _)
RangeSum(delays, lo, hi) ==
    IF lo > hi THEN [c |-> 0, lo |-> 0]
    ELSE IF lo = hi THEN [c |-> 0, lo |-> delays[lo]]
    ELSE LET mid == (lo + hi) \div 2
             a == RangeSum(delays, lo, mid)
             b == RangeSum(delays, mid + 1, hi) IN
         [c |-> a.c + b.c + CarryU32(a.lo, b.lo), lo |-> AddU32(a.lo, b.lo)]
PrefixSum(delays, n) == RangeSum(delays, 1, n)

\* C12 as stated: while the play limit is not reached the returned index i is the one
\* with sum(delay[0..i-1]) <= e < sum(delay[0..i]) for e = elapsed mod T, the remaining
\* time is sum(delay[0..i]) - e and lies in [1, delay[i]], and i < num_frames.
C12_ContainingFrame ==
    (Playable /\ LtU32(pickIn.k, PlayLimit)) =>
        LET i == pickOut.idx
            before == PrefixSum(A.delay_ms, i)
            upto == PrefixSum(A.delay_ms, i + 1) IN
        /\ i \in 0..(A.num_frames - 1)
        /\ before.c = 0 /\ ~LtU32(pickIn.e, before.lo)
        /\ upto.c > 0 \/ LtU32(pickIn.e, upto.lo)
        /\ pickOut.rem = SubU32(upto.lo, pickIn.e)
        /\ pickOut.rem >= 1 /\ pickOut.rem <= A.delay_ms[i + 1]

(***************************************************************************)
(* Properties of the composed pixels (checked under SpecCompose)           *)
(***************************************************************************)
Composed == comp.state = "composed"
\* canvas pixel i lies in the rectangle the fcTL declares: w x h pixels at (x, y)
InRegion(i, f) ==
    LET col == i % canvas_w
        row == i \div canvas_w IN
    /\ ~LtU32(col, f.x) /\ LtU32(SubU32(col, f.x), f.w)
    /\ ~LtU32(row, f.y) /\ LtU32(SubU32(row, f.y), f.h)
\* the source pixel of the frame that belongs on canvas pixel i
SourceAt(i, f) ==
    comp.px[SubU32(i \div canvas_w, f.y) * f.w + SubU32(i % canvas_w, f.x)]

\* C13 as stated: after a finalize the canvas is the stored frame for dispose NONE, the
\* stored frame with the frame's rectangle transparent and every other pixel unchanged
\* for BACKGROUND, and the canvas found at entry for PREVIOUS.
C13_DisposeOnly ==
    Composed =>
        CASE comp.f.dispose_op = 1 ->
                \A i \in DOMAIN canvas :
                    canvas[i] = IF InRegion(i, comp.f) THEN Transparent ELSE frame_copy[i]
          [] comp.f.dispose_op = 2 -> canvas = entry
          [] OTHER -> canvas = frame_copy

\* C14 as stated: the stored frame is the canvas found at entry (transparent before the
\* first frame) with the pixels of the frame's rectangle replaced (SOURCE) or blended
\* (OVER: src + round(dst*(255-srcAlpha)/255) per channel) and every other pixel kept.
C14_StoredFrame ==
    Composed =>
        /\ A.num_frames = 1 => \A i \in DOMAIN entry : entry[i] = Transparent
        /\ \A i \in DOMAIN frame_copy :
             frame_copy[i] =
                IF InRegion(i, comp.f)
                THEN IF comp.f.blend_op = 0 THEN SourceAt(i, comp.f)
                     ELSE [c \in 1..4 |->
                            SourceAt(i, comp.f)[c]
                            + (entry[i][c] * (255 - SourceAt(i, comp.f)[4]) + 127) \div 255]
                ELSE entry[i]

(***************************************************************************)
(* Properties of the endpoint discovery (checked under SpecDiscover)       *)
(***************************************************************************)
\* the slots of the interfaces the call scans
Scanned ==
    {k \in 1..Len(probe.slots) :
        probe.want_iface = -1 \/ probe.slots[k].i = probe.want_iface}
OutOfType(type) ==
    {k \in Scanned : ~probe.slots[k].kind.in /\ probe.slots[k].kind.attr = type}
FirstOf(S) == CHOOSE k \in S : \A j \in S : k <= j
Chosen(k) ==
    /\ picked.rc = 0
    /\ picked.ep = SlotAddr(probe.slots, k)
    /\ picked.iface = probe.slots[k].i

\* C20: the discovery returns the first OUT interrupt endpoint of the scanned interfaces
\* if there is one, even after an OUT bulk endpoint; else the first OUT bulk endpoint;
\* else it fails.  With an interface index requested only that interface is scanned.
\* An IN endpoint is never returned.
C20_PrefersInterruptOut ==
    picked.called =>
        IF ~probe.readable THEN picked.rc # 0
        ELSE IF OutOfType(LIBUSB_TRANSFER_TYPE_INTERRUPT) # {}
        THEN Chosen(FirstOf(OutOfType(LIBUSB_TRANSFER_TYPE_INTERRUPT)))
        ELSE IF OutOfType(LIBUSB_TRANSFER_TYPE_BULK) # {}
        THEN Chosen(FirstOf(OutOfType(LIBUSB_TRANSFER_TYPE_BULK)))
        ELSE picked.rc # 0

\* an OUT bulk endpoint of interface 0 precedes the OUT interrupt endpoint of interface 1
\* that was returned
C20_Witness ==
    /\ picked.called /\ picked.rc = 0
    /\ probe.want_iface = -1
    /\ OutOfType(LIBUSB_TRANSFER_TYPE_BULK) # {}
    /\ OutOfType(LIBUSB_TRANSFER_TYPE_INTERRUPT) # {}
    /\ FirstOf(OutOfType(LIBUSB_TRANSFER_TYPE_BULK))
         < FirstOf(OutOfType(LIBUSB_TRANSFER_TYPE_INTERRUPT))
    /\ picked.iface = 1

(***************************************************************************)
(* Properties of the canvas size and the viewport (checked under SpecView) *)
(***************************************************************************)
\* ceil(side * p / 100) for side = 240 and side = 320, without leaving 32 bits
CeilW(p) == 2 * p + (2 * p + 4) \div 5
CeilH(p) == 3 * p + (p + 4) \div 5

\* C21: for every configuration the canvas is ceil(240p/100) x ceil(320p/100) with
\* p = max(100, fb_scale_percent), never smaller than the panel, the viewport origin lies
\* in [0, canvas_w - 240] x [0, canvas_h - 320], and "center" gives the centred origin.
C21_ViewportInsideCanvas ==
    (call.fn = "compute_viewport" /\ result.called) =>
        LET p == IF call.fb_scale_percent < 100 THEN 100 ELSE call.fb_scale_percent IN
        /\ ~result.undefined
        /\ result.fbw = CeilW(p) /\ result.fbh = CeilH(p)
        /\ result.fbw >= PanelW /\ result.fbh >= PanelH
        /\ 0 <= result.vx /\ result.vx <= result.fbw - PanelW
        /\ 0 <= result.vy /\ result.vy <= result.fbh - PanelH
        /\ call.viewport_x = -1 => result.vx = (result.fbw - PanelW) \div 2
        /\ call.viewport_y = -1 => result.vy = (result.fbh - PanelH) \div 2

(***************************************************************************)
(* Properties of the UI coordinate mapping (checked under SpecMap)         *)
(***************************************************************************)
\* the mapping in the words of the claim: rotation, then flip, then translation
Rotated(x, y, o, ccw) ==
    IF o = ORIENT_PORTRAIT THEN <<x, y>>
    ELSE IF ccw = 0 THEN <<y, PanelH - 1 - x>> ELSE <<PanelW - 1 - y, x>>
Flipped(q, flip) == IF flip # 0 THEN <<PanelW - 1 - q[1], PanelH - 1 - q[2]>> ELSE q
InPanelRect(d, fbw, fbh) ==
    LET ox == (fbw - PanelW) \div 2
        oy == (fbh - PanelH) \div 2 IN
    /\ ox <= d[1] /\ d[1] < ox + PanelW
    /\ oy <= d[2] /\ d[2] < oy + PanelH

\* C22: the mapping is rotation (portrait identity, clockwise (x,y)->(y,H-1-x),
\* counterclockwise (x,y)->(W-1-y,x)), then flip, then translation by the centring offset;
\* every point of the logical region lands in the centred panel rectangle, and no other
\* point of the region lands where the mapped point did.
C22_MapIntoPanelRect ==
    (call.fn = "map_ui_xy_fb" /\ result.called) =>
        LET q == Flipped(Rotated(call.xL, call.yL, call.o, call.ccw), call.flip180) IN
        /\ result.dx = (call.fbw - PanelW) \div 2 + q[1]
        /\ result.dy = (call.fbh - PanelH) \div 2 + q[2]
        /\ \A x \in 0..(LogicalW(call.o) - 1), y \in 0..(LogicalH(call.o) - 1) :
              LET d == map_ui_xy_fb(x, y, call.o, call.flip180, call.ccw,
                                    call.fbw, call.fbh) IN
              /\ InPanelRect(d, call.fbw, call.fbh)
              /\ d = <<result.dx, result.dy>> => (x = call.xL /\ y = call.yL)

\* the far corner of the landscape region, counterclockwise and flipped
C22_Witness ==
    /\ call.fn = "map_ui_xy_fb" /\ result.called
    /\ call.o = ORIENT_LANDSCAPE /\ call.ccw = 1 /\ call.flip180 = 1
    /\ call.xL = PanelH - 1 /\ call.yL = PanelW - 1
    /\ call.fbw > PanelW
    /\ result.dx = (call.fbw - PanelW) \div 2 + PanelW - 1
    /\ result.dy = (call.fbh - PanelH) \div 2

(***************************************************************************)
(* Properties of the text settings (checked under SpecText)                *)
(***************************************************************************)
Inherits(ti) ==
    ti.orient_override = -1 /\ ti.flip_override = -1 /\ ti.landscape_ccw_override = -1

\* C23: an item with all overrides "inherit" is drawn with the global orientation, flip
\* and direction and lands where the global values put it; an overridden field takes the
\* override for that item only: the global settings stay as configured, whatever was
\* drawn before.
C23_InheritIsGlobal ==
    call.fn = "draw_text_ttf" =>
        /\ result.L = call.L
        /\ \A k \in 1..Len(result.drawn) :
              LET ti == call.texts[k]
                  r == result.drawn[k]
                  g == map_ui_xy_fb(GlyphPx[1], GlyphPx[2], call.L.text_orient,
                                    call.L.text_flip, call.L.text_landscape_ccw,
                                    TextCanvas[1], TextCanvas[2]) IN
              /\ Inherits(ti) =>
                    /\ r.o = call.L.text_orient /\ r.flip = call.L.text_flip
                    /\ r.ccw = call.L.text_landscape_ccw
                    /\ <<r.dx, r.dy>> = g
              /\ r.o = (IF ti.orient_override = -1 THEN call.L.text_orient
                        ELSE ti.orient_override)
              /\ r.flip = (IF ti.flip_override = -1 THEN call.L.text_flip
                           ELSE ti.flip_override)
              /\ r.ccw = (IF ti.landscape_ccw_override = -1
                          THEN call.L.text_landscape_ccw
                          ELSE ti.landscape_ccw_override)

\* a fully overridden item drawn before an inheriting one, under different globals
C23_Witness ==
    /\ call.fn = "draw_text_ttf" /\ Len(result.drawn) = 2
    /\ call.texts[1].orient_override = 1 /\ call.texts[1].flip_override = 1
    /\ call.texts[1].landscape_ccw_override = 1
    /\ Inherits(call.texts[2])
    /\ call.L = [text_orient |-> ORIENT_PORTRAIT, text_flip |-> 0, text_landscape_ccw |-> 0]
    /\ result.drawn[1].o = ORIENT_LANDSCAPE
    /\ result.drawn[2].o = ORIENT_PORTRAIT
    /\ <<result.drawn[2].dx, result.drawn[2].dy>> # <<result.drawn[1].dx, result.drawn[1].dy>>

(***************************************************************************)
(* Properties of the pixel path (checked under SpecPack)                   *)
(***************************************************************************)
OpaqueSource == call.src[4] = 255 /\ call.alpha \in {-1, 255}

\* C24: an opaque pixel (r,g,b,255) premultiplied, composited on any canvas pixel,
\* un-premultiplied and packed gives ((r & 0xF8) << 8) | ((g & 0xFC) << 3) | (b >> 3), low
\* byte first at the row-major position of the pixel; (255,0,0,255) gives 0xF800 and a
\* fully transparent canvas pixel gives 0x0000.
C24_OpaqueRoundTrip ==
    (call.fn = "viewport_to_rgb565" /\ result.called) =>
        LET v == result.hi * 256 + result.lo IN
        /\ result.j = 2 * (PanelW * call.y + call.x)
        /\ OpaqueSource =>
              /\ result.fb = call.src
              /\ v = (call.src[1] \div 8) * 2048 + (call.src[2] \div 4) * 32
                       + call.src[3] \div 8
              /\ result.lo = v % 256
        /\ (OpaqueSource /\ call.src = <<255, 0, 0, 255>>) =>
              (result.lo = 0 /\ result.hi = 248)
        /\ result.fb[4] = 0 => (result.lo = 0 /\ result.hi = 0)

\* an opaque grey pixel drawn over a half-transparent canvas pixel
C24_Witness ==
    /\ call.fn = "viewport_to_rgb565" /\ result.called
    /\ call.src = <<128, 128, 128, 255>> /\ call.alpha = -1
    /\ call.dst = <<10, 20, 30, 128>>
    /\ result.hi = 132 /\ result.lo = 16

(***************************************************************************)
(* Properties of the background position (checked under SpecBg)            *)
(***************************************************************************)
\* v >= -side for the image side whose 32 bits are bits (a side of 2^31 or more exceeds
\* the magnitude of every int)
AtLeastMinusSide(v, bits) == bits < 0 \/ v >= -bits
\* the offset the claim prescribes on one axis
Prescribed(got, mode, cfg, side_px, bits) ==
    /\ AtLeastMinusSide(got, bits) /\ got <= side_px
    /\ mode = 0 =>
          /\ (AtLeastMinusSide(cfg, bits) /\ cfg <= side_px) => got = cfg
          /\ ~AtLeastMinusSide(cfg, bits) => got = -bits
          /\ cfg > side_px => got = side_px
    /\ (mode # 0 /\ bits > 0 /\ bits <= 2 * side_px) => got = CDiv(side_px - bits, 2)

\* C25: for static and animated backgrounds the offset used lies in
\* [-image_width, canvas_width] x [-image_height, canvas_height]; an offset below the range
\* becomes -width / -height, one above becomes the canvas dimension, one inside is used
\* unchanged, and "center" gives (canvas - image) / 2 before clamping.
C25_OffsetClamped ==
    (call.fn = "bg_position" /\ result.called) =>
        /\ ~result.undefined
        /\ Prescribed(result.bgx, call.bg_x_mode, call.bg_x, call.fbw, call.bw)
        /\ Prescribed(result.bgy, call.bg_y_mode, call.bg_y, call.fbh, call.bh)

(***************************************************************************)
(* Properties of the assets and the tick (checked under SpecTick)          *)
(***************************************************************************)
BadFile(kind) == kind \in {"undecodable", "unreadable"}

\* C26: a background that cannot be read or decoded ends the program before the device is
\* opened or a packet is sent; an image layer that cannot be read or decoded is marked
\* not loaded and never drawn, and the program does not end over it.
C26_LayerErrorsSkipped ==
    /\ BadFile(setup.bg) =>
          /\ ~run.opened /\ run.packets = 0
          /\ tpc \in {"bg_load", "exited"}
          /\ tpc = "exited" => run.code # 0
    /\ \A i \in 1..Len(imgA) :
          BadFile(setup.imgs[i]) =>
             /\ ~imgA[i]
             /\ \A k \in 1..Len(ops) : ops[k] # <<"img", i - 1>>
    /\ run.at # "img_load"

\* what a complete tick does under the configuration, in the order the claim gives
TickPlan ==
    LET Drawn(e) == ~BadFile(setup.imgs[e[2] + 1])
        images == SelectSeq([i \in 1..Len(setup.imgs) |-> <<"img", i - 1>>], Drawn) IN
    << <<"alloc">>, <<"bg">> >>
      \o images
      \o [k \in 1..setup.n_overlays |-> <<"overlay", k - 1>>]
      \o [k \in 1..setup.n_texts |-> <<"text", k - 1>>]
      \o << <<"extract">>, <<"hdr">> >>
      \o [k \in 1..FramePackets |-> <<"data", k - 1>>]

\* C28: in every tick the canvas is allocated, then the background is drawn, then the
\* image layers, the overlays and the text items, each in configuration order, then the
\* viewport is extracted, and only then the header and the payload are sent.
C28_TickOrder ==
    /\ Len(ops) <= Len(TickPlan)
    /\ \A k \in 1..Len(ops) : ops[k] = TickPlan[k]
    /\ run.packets > (FramePackets + 1) * run.ticks =>
          \E k \in 1..Len(ops) : ops[k] = <<"extract">>

\* the second tick of a layout with two image layers, two overlays and two text items
\* has sent its payload
C28_Witness ==
    /\ tpc = "free" /\ run.ticks = 1
    /\ imgA = <<TRUE, TRUE>>
    /\ setup.n_overlays = 2 /\ setup.n_texts = 2
    /\ ops = TickPlan

Freed(b) == b.state = "freed" /\ b.frees = 1

\* C29: the canvas and the packed buffer of a tick are freed exactly once on every path
\* through the tick (frame sent, header failure, payload failure), before the next tick
\* starts or the loop is left; they are never used or freed when not live and never
\* carried into a later tick.
C29_BuffersOwnedByTick ==
    /\ ~run.misuse /\ ~run.leaked
    /\ fb.frees <= 1 /\ rgb565.frees <= 1
    /\ (tpc \in {"alloc", "tx_done"} /\ fb.state # "none") => (Freed(fb) /\ Freed(rgb565))
    /\ (tpc = "exited" /\ run.at = "tx_done") => (Freed(fb) /\ Freed(rgb565))
    /\ tpc \in {"bg", "img", "overlay", "text", "extract"} => (Live(fb) /\ rgb565 = NoBuffer)
    /\ tpc \in {"hdr", "data", "free"} => (Live(fb) /\ Live(rgb565))

\* the payload of the second tick failed after the first tick was sent
C29_Witness ==
    /\ tpc = "tx_done" /\ run.ticks = 1
    /\ \E k \in 1..Len(ops) : ops[k] = <<"data", 1>>
    /\ run.packets = FramePackets + 3
    /\ Freed(fb) /\ Freed(rgb565)

(***************************************************************************)
(* Properties of the frame on the wire (checked under SpecFrame)           *)
(***************************************************************************)

\* little-endian fields of a header; at is the C index of the first byte
LE16(b, at) == b[at + 1] + 256 * b[at + 2]
LE32(b, at) == b[at + 1] + 256 * b[at + 2] + 65536 * b[at + 3] + 16777216 * b[at + 4]

\* what the k-th transfer of a frame is: the header, then the payload in
\* PACK-byte steps
WirePlan(k) ==
    IF k = 1 THEN [src |-> "hdr", from |-> 0, len |-> PACK, xlen |-> PACK]
    ELSE [src |-> "rgb565", from |-> (k - 2) * PACK, len |-> PACK, xlen |-> PACK]

\* the bytes the latest transfer carried: len bytes of its source, then zeros
Carried(f, s) ==
    /\ Len(s.pkt) = PACK /\ s.xlen = PACK
    /\ \A k \in 1..PACK :
          s.pkt[k] = IF k > s.len THEN 0
                     ELSE IF s.src = "hdr" THEN build_header_fixed[k]
                     ELSE Rgb565At(f, s.from + k - 1)

\* C27: a frame goes out as one 512-byte header followed by 300 payload packets,
\* every transfer is 512 bytes long (the bytes past the copied length are zero),
\* the header starts DA DB DC DD, carries version 2, command 1, format 2, all
\* little-endian, and its little-endian length field is 153600 = 240*320*2, the
\* number of payload bytes sent for a complete frame.
C27_FrameOnWire ==
    result.called =>
        /\ <<result.hdr[1], result.hdr[2], result.hdr[3], result.hdr[4]>> = <<218, 219, 220, 221>>
        /\ LE16(result.hdr, 4) = 2 /\ LE16(result.hdr, 6) = 1 /\ LE16(result.hdr, 12) = 2
        /\ LE32(result.hdr, 22) = 153600 /\ 153600 = 240 * 320 * 2
        /\ Len(result.log) <= 301
        /\ \A k \in 1..Len(result.log) : result.log[k] = WirePlan(k)
        /\ result.last # NoPacket => Carried(result.frame, result.last)
        /\ result.at = "free" =>
              /\ Len(result.log) = 301
              /\ result.log[1].src = "hdr"
              /\ result.sent = LE32(result.hdr, 22)

\* the second frame of a run has gone out completely
C27_Witness ==
    /\ call.fn = "frame" /\ result.called /\ result.at = "free" /\ result.frame = 1
    /\ Len(result.log) = 301 /\ result.sent = FRAME_LEN
    /\ result.last.from = FRAME_LEN - PACK

(***************************************************************************)
(* Properties of the two finalize blocks (checked under SpecFinalize)      *)
(***************************************************************************)

\* the two blocks ended the same way and, where they ran to the end, left the
\* same stored frame, delay, animation totals and canvases
SameFinalize(a, b) ==
    /\ a.state = b.state
    /\ a.state = "stored" =>
          /\ a.frame = b.frame
          /\ a.ms = b.ms
          /\ a.A = b.A
          /\ a.canvas = b.canvas /\ a.canvas_prev = b.canvas_prev
    /\ a.state = "skipped" =>
          /\ a.A = b.A
          /\ a.canvas = b.canvas /\ a.canvas_prev = b.canvas_prev

\* C30: for the same open frame and the same canvas state, finalizing at IEND and
\* finalizing at a following fcTL store the same frame with the same delay, update
\* the total duration and the frame count alike, leave the same canvas after the
\* disposal, and fail (or store nothing) under the same conditions.
C30_SameFinalize ==
    (call.fn = "finalize" /\ result.called /\ result.both) =>
        SameFinalize(result.fctl, result.iend)

\* a half transparent frame blended over a painted canvas at offset 1, with the
\* canvas restored afterwards, went through both blocks
C30_Witness ==
    /\ call.fn = "finalize" /\ result.called /\ result.both
    /\ call.ls = "later" /\ call.data = "half" /\ call.rotate180_all
    /\ call.cur.x = 1 /\ call.cur.blend_op = 1 /\ call.cur.dispose_op = 2
    /\ call.cur.delay_num = 3 /\ call.cur.delay_den = 7
    /\ result.iend.state = "stored" /\ result.iend.ms = 429
    /\ result.iend.A.total_ms = 529
    /\ result.iend.frame # result.iend.canvas


(***************************************************************************)
(* Properties of the loader's failures, frames and canvas size             *)
(***************************************************************************)

\* the chunk just read is one the loader rejects: a wrong length, a chunk before
\* IHDR, a short fdAT for an open frame, a frame of zero size, a pending frame that
\* does not decode or decodes to another size
ParseFailure ==
    \/ chunk'.type = "IHDR" /\ chunk'.dlen # 13
    \/ chunk'.type = "early"
    \/ chunk'.type = "acTL" /\ chunk'.dlen # 8
    \/ chunk'.type = "fcTL" /\ chunk'.dlen # 26
    \/ chunk'.type = "fdAT" /\ cur.in_use /\ chunk'.dlen < 4
    \/ chunk'.type \in {"fcTL", "IEND"} /\ chunk'.frame \in {"undecodable", "other_size"}
    \/ /\ chunk'.type = "fcTL" /\ chunk'.dlen = 26 /\ chunk'.frame \in {"none", "ok"}
       /\ chunk'.w = 0 \/ chunk'.h = 0
       /\ aPc' # "crashed"

\* C31 (checked under SpecChunks): every parse failure makes the loader return -1
\* with the sequence reset to empty (no frames, no delays, zero duration, not
\* animated), whatever had been appended before; and -1 is never returned with
\* anything left in the sequence.
C31_FailureReturnsEmpty ==
    [][/\ (ReadsChunk /\ ParseFailure) =>
            /\ aPc' = "done" /\ aRes' = -1
            /\ A' = NoAnim /\ num_frames' = 0 /\ ~is_apng'
       /\ aRes' = -1 =>
            (A'.num_frames = 0 /\ A'.total_ms = 0 /\ A'.delay_ms = <<>> /\ ~is_apng')]_vars

\* a short fdAT was met after a frame had been appended
C31_Witness ==
    /\ chunk.type = "fdAT" /\ chunk.dlen = 3
    /\ wroteOn # <<>>
    /\ aPc = "done" /\ aRes = -1 /\ A = NoAnim /\ num_frames = 0

\* the open frame has image data
HasData(f) == f.in_use /\ f.idata > 0

\* the step appends the open frame to the sequence, after the frames stored before
Appends == A' = AfterStore(A, cur) /\ num_frames' = num_frames + 1

\* every step of the loader but the last conjunct's: frames are appended only from
\* the one open frame, when it has data and is closed by an fcTL or IEND; an open
\* frame without data is dropped; an acTL only sets saw_acTL, whatever count it holds
OneFramePerClose ==
    /\ (ReadsChunk /\ A'.num_frames > A.num_frames) =>
           (HasData(cur) /\ chunk'.type \in {"fcTL", "IEND"} /\ Appends)
    /\ (ReadsChunk /\ HasData(cur) /\ cur' # cur /\ ~HasData(cur')) =>
           (Appends \/ aRes' = -1 \/ aPc' = "crashed")
    /\ (ReadsChunk /\ cur.in_use /\ cur.idata = 0 /\ chunk'.type \in {"fcTL", "IEND"}) =>
           (A' = A \/ aRes' = -1)
    /\ (ReadsChunk /\ chunk'.type = "acTL" /\ chunk'.dlen = 8) =>
           UNCHANGED <<aPc, aRes, header, cur, A, num_frames, is_apng, canvasHist>>

\* C32 (checked under SpecChunks): one frame is open at a time and the sequence
\* gets exactly one frame, in stream order, for every frame that collected image
\* data: frames are appended only by closing the open frame, a frame without data
\* adds nothing, the acTL frame count changes nothing, and no frame that holds
\* data is left behind when the loader stops reading.
C32_OneFramePerDataFrame ==
    [][/\ OneFramePerClose
       /\ (aPc = "chunks" /\ aPc' = "finish") => ~HasData(cur')]_vars

\* the same without the last conjunct
C32_ClosedFramesStored == [][OneFramePerClose]_vars

\* C34 (checked under SpecHeaders): once the composition canvas is allocated the
\* canvas dimensions stay those it was allocated with: the canvas, the frame
\* stored last and the dimensions reported with the result are all canvas_w x
\* canvas_h, whatever chunks follow.
C34_CanvasFixed ==
    canvasDim # <<>> =>
        /\ canvasDim = <<canvas_w, canvas_h>>
        /\ wroteOn # <<>> => wroteOn = canvasDim


(***************************************************************************)
(* Properties of the play limit (checked under SpecPick)                   *)
(***************************************************************************)
\* the play limit the loop policy stands for: 0 is "infinite"
PolicyLimit ==
    CASE pickIn.loop_mode = 1 -> 0
      [] pickIn.loop_mode = 2 -> 1
      [] pickIn.loop_mode = 3 -> pickIn.loop_N
      [] OTHER -> A.plays
PolicyStated == pickIn.loop_mode = 3 => pickIn.loop_N >= 1
FrameInCycle ==
    apng_pick_frame(A, pickIn.e, pickIn.speed, pickIn.loop_mode, pickIn.loop_N).idx

\* C33 as stated: the play limit follows the loop policy (file-declared: the source
\* play count, 0 meaning infinite; forced-infinite: infinite; forced-once: 1;
\* forced-N, N >= 1: N), and under an infinite limit the frame picked at any 64-bit
\* elapsed time t is the frame picked at t mod total duration.
C33_InfiniteNeverFreezes ==
    (Playable /\ PolicyStated) =>
        IF PolicyLimit = 0 \/ LtU32(pickIn.k, PolicyLimit)
        THEN pickOut.idx = FrameInCycle
        ELSE pickOut = FinalFrame

\* the part of C33 that holds: the same statement for the elapsed times below
\* (2^32 - 1) cycles
C33_PolicyBelowLastCycle ==
    (Playable /\ PolicyStated /\ pickIn.k # UINT32_MAX) =>
        IF PolicyLimit = 0 \/ LtU32(pickIn.k, PolicyLimit)
        THEN pickOut.idx = FrameInCycle
        ELSE pickOut = FinalFrame
\* an infinite animation still cycles in cycle 2^32 - 2
C33_FarCycleReached ==
    /\ Playable /\ PolicyLimit = 0 /\ A.num_frames = 2
    /\ pickIn.k = SubU32(UINT32_MAX, 1) /\ pickIn.hi > 0 /\ pickIn.e = 0
    /\ pickOut.idx = 0


(***************************************************************************)
(* Properties of the stored frames (checked under SpecCompose)             *)
(***************************************************************************)
FramesKept == \A k \in DOMAIN frame_rgba : frame_rgba'[k] = frame_rgba[k]
StoredIsCanvas ==
    Len(frame_rgba') > Len(frame_rgba) =>
        /\ Len(frame_rgba') = Len(frame_rgba) + 1
        /\ frame_rgba'[Len(frame_rgba')] = frame_copy'

\* C35 as stated: a stored frame is a copy of the canvas as it was when the frame
\* was appended, and no later finalize (compositing of a later frame, BACKGROUND
\* clearing, PREVIOUS restoring) changes a pixel of a frame stored before.
C35_StoredFramesKept == [][FramesKept /\ StoredIsCanvas]_vars

\* the part of C35 that holds: the same statement for the finalizes whose blend
\* loop stays inside the canvas
C35_KeptWhileInBounds ==
    [][comp'.state # "undefined" => (FramesKept /\ StoredIsCanvas)]_vars
\* a second frame was composed and disposed after the first one was stored
C35_SecondFrameComposed ==
    /\ Composed /\ Len(frame_rgba) = 2
    /\ comp.f.dispose_op = 1 /\ canvas # frame_rgba[2]
    /\ frame_rgba[1] # frame_rgba[2]


(***************************************************************************)
(* Properties of the premultiplied pixels (checked under SpecCompose; the  *)
(* arithmetic of one drawn pixel under SpecPack)                           *)
(***************************************************************************)
\* a premultiplied pixel: bytes, no colour channel above the alpha
Premultiplied(p) ==
    /\ \A c \in 1..4 : p[c] \in 0..255
    /\ p[1] <= p[4] /\ p[2] <= p[4] /\ p[3] <= p[4]
\* the sums of over_premul (lines 514-517) before the cast to uint8_t
OverSums(dst, src) ==
    LET inv == 255 - src[4] IN
    {src[c] + (dst[c] * inv + 127) \div 255 : c \in 1..4}
\* the quotients of lines 1061-1062 before the cast to uint8_t
UnSums(px) ==
    IF px[4] \in {0, 255} THEN {}
    ELSE {(px[c] * 255 + px[4] \div 2) \div px[4] : c \in 1..3}

\* C36 as stated: after APNG SOURCE/OVER compositing every canvas pixel is a valid
\* premultiplied pixel (each colour channel <= its alpha), so that un-premultiplying
\* it (viewport extraction) never gives a value above 255.
C36_CanvasPremultiplied ==
    \A i \in DOMAIN canvas :
        /\ Premultiplied(canvas[i])
        /\ \A v \in UnSums(canvas[i]) : v <= 255

\* the part of C36 that holds. On the APNG canvas: while the blend loops stay
\* inside the decoded frame and the canvas, the canvas, the snapshot and every stored
\* frame hold premultiplied pixels only.
C36_PremultipliedWhileInBounds ==
    comp.state # "undefined" =>
        /\ \A i \in DOMAIN canvas :
             Premultiplied(canvas[i]) /\ Premultiplied(canvas_prev[i])
        /\ \A k \in DOMAIN frame_rgba : \A i \in DOMAIN frame_rgba[k] :
             Premultiplied(frame_rgba[k][i])
\* For one drawn pixel (under SpecPack): the loaded pixel, the pixel scaled by the
\* layer opacity and the pixel after over_premul are premultiplied, no sum of
\* over_premul and no quotient of the extraction exceeds 255, a fully transparent
\* source leaves the destination unchanged and a fully opaque one replaces it.
C36_DrawnPixelPremultiplied ==
    (call.fn = "viewport_to_rgb565" /\ result.called) =>
        LET loaded == PremulPx(call.src)
            sp == LayerAlpha(loaded, call.alpha) IN
        /\ Premultiplied(loaded) /\ Premultiplied(sp) /\ Premultiplied(result.fb)
        /\ \A v \in OverSums(call.dst, sp) \cup UnSums(result.fb) : v <= 255
        /\ sp[4] = 0 => result.fb = call.dst
        /\ sp[4] = 255 => result.fb = sp
\* a half-transparent frame was blended over an opaque canvas
C36_BlendedOver ==
    /\ Composed /\ Len(frame_rgba) = 2 /\ comp.f.blend_op = 1
    /\ \E i \in DOMAIN canvas : entry[i][4] = 255 /\ comp.px[0][4] = 128 /\ canvas[i] # entry[i]


(***************************************************************************)
(* Properties of the retry budget and of the end of the run (checked under *)
(* SpecLive and Spec)                                                      *)
(***************************************************************************)
Count(seq, v) == Cardinality({k \in DOMAIN seq : seq[k] = v})
Sending == pc \in {"hdr", "data"} /\ rpc # "idle"
\* the budget of one packet
WithinBudget ==
    /\ nInt <= 4
    /\ tries <= 10
    /\ Count(steps, "reopen") <= 2
\* a bulk transfer is issued in this step; it is the fallback of an interrupt transfer
\* issued in the same step, which makes the bulk transfers of a packet at most 4 too
BulkIssued == bulkRes = NoXfer /\ bulkRes' # NoXfer
\* the frame being sent is over: sent completely, or its failure reached main or
\* ended the process
FrameOver ==
    \/ pc = "exited"
    \/ pc = "tx_done"
    \/ pc = "tick"
    \/ pc = "data" /\ rpc = "idle" /\ off >= frame_len

\* C37: whatever the device returns, sending one packet issues at most 4 interrupt
\* and at most 4 bulk transfers and at most 10 open attempts per full reopen, and it
\* terminates; sending a frame always ends, with all its packets sent or with an
\* error surfaced (no unbounded retry loop).  "Always eventually not sending" says
\* that no activation of out512_retry and no frame lasts forever.
C37_SendTerminates ==
    /\ []WithinBudget
    /\ [][/\ BulkIssued => (nInt' = nInt + 1 /\ intRes' # NoXfer)
          /\ nInt' \in {0, nInt, nInt + 1}
          /\ tries' \in {0, tries, tries + 1}]_vars
    /\ []<>(~Sending \/ pc = "exited")
    /\ []<>(pc \notin {"hdr", "data"} \/ FrameOver)
    /\ [](pc = "tx_done" => (failed \/ FrameEntries(frame_idx - 1) \subseteq acked))

\* a packet that used its whole budget: four attempts, two full reopens that each
\* found the device again, and the error returned to main
C37_Witness ==
    /\ pc = "hdr" /\ rpc = "ret" /\ ret = LIBUSB_ERROR_IO
    /\ nInt = 4 /\ Count(steps, "reopen") = 2 /\ h # sess0.h


(***************************************************************************)
(* Properties of the device handle (checked under Spec)                    *)
(***************************************************************************)
\* every libusb call that takes the handle finds it open: the transfers of an attempt,
\* the clear-halt, reset and claim of a recovery step, the release at shutdown
CallsOnOpenHandle ==
    /\ (xferArgs # NoArgs /\ pc # "exited")
         => (xferArgs.h # 0 /\ xferArgs.h = h /\ h \in openHandles)
    /\ (rpc \in {"attempt", "recover"} /\ pc # "exited") => (h # 0 /\ h \in openHandles)
    /\ released # <<>> => (released[1] # 0 /\ released[1] = h)
    /\ h # 0 => (h \in openHandles \/ pc = "exited")
    /\ openHandles \subseteq {h}
\* a failed full reopen is returned at once: no handle, no attempt after it
ReopenFailureReturned ==
    (rpc = "ret" /\ h = 0) => (ret # 0 /\ steps # <<>> /\ Last(steps) = "reopen"
                                /\ intRes = NoXfer /\ xferArgs = NoArgs)

\* C38 as stated: no transfer, clear-halt, reset, claim or release is issued on a
\* closed or null handle, a failed full reopen is returned without another attempt,
\* shutdown releases and closes only a handle that is open, and every handle opened
\* has been closed when the process ends.
C38_HandleClosedOnce ==
    /\ CallsOnOpenHandle
    /\ ReopenFailureReturned
    /\ pc = "exited" => openHandles = {}

\* the part of C38 that holds: the same statement for the runs that do not end in
\* the exit(1) of ensure_claim
C38_ClosedUnlessClaimExit ==
    /\ CallsOnOpenHandle
    /\ ReopenFailureReturned
    /\ (pc = "exited" /\ "claim" \notin err) => openHandles = {}
\* a run that lost the device in a full reopen and shut down without a handle
C38_ShutdownWithoutHandle ==
    /\ pc = "exited" /\ printed /\ h = 0 /\ nOpens >= 1 /\ released = <<>>


(***************************************************************************)
(* Properties of the report at the end of the run (checked under Spec)     *)
(***************************************************************************)
\* C39 as stated: "Frame sent." is printed and the status is 0 only when every packet
\* of every frame that was started was transferred; a header or payload send
\* failure is never reported as success.
C39_SuccessOnlyIfAllSent ==
    (pc = "exited" /\ (printed \/ exit_code = 0)) =>
        /\ ~failed
        /\ \A k \in 1..Len(wire) : wire[k] \in acked

\* the part of C39 that holds: the report is made by every run that reaches tx_done
\* and by no other, and a failed send is named on stderr before it
C39_ReportAtShutdownOnly ==
    /\ pc = "exited" => (printed <=> exit_code = 0)
    /\ printed => pc = "exited"
    /\ (pc = "exited" /\ printed /\ ~failed) => \A k \in 1..Len(wire) : wire[k] \in acked
    /\ failed => err \cap {"header send failed", "data send failed"} # {}


(***************************************************************************)
(* Properties of the loop condition (checked under Spec)                   *)
(***************************************************************************)
Continuous == layout.once = 0 /\ layout.fps > 0
LoopLeft == pc = "tx_done" \/ (pc = "exited" /\ printed)
LeftByStopOrFailure == failed \/ stopSeen
OneFrameSent ==
    /\ frame_idx = 1
    /\ FrameEntries(0) \subseteq acked
    /\ \A k \in 1..Len(wire) : wire[k][1] = 0

\* C40 as stated: with once = 0 and a positive frame rate the loop goes on rendering
\* and sending frames until a stop request is observed or a send fails; with once set
\* or frame rate 0 exactly one frame is sent.
C40_LoopUntilStopOrFailure ==
    /\ [](LoopLeft =>
            IF Continuous THEN LeftByStopOrFailure
            ELSE (failed \/ OneFrameSent))
    /\ [][(pc = "data" /\ pc' \notin {"data", "exited"} /\ Continuous /\ ~failed' /\ ~g_stop)
            => pc' = "tick"]_vars

\* the part of C40 that holds: the same statement with "a frame rate from 1 to 1000",
\* the rates for which 1000 / fps is positive
C40_LoopWhilePeriodPositive ==
    /\ [](LoopLeft =>
            IF Continuous /\ layout.fps <= 1000 THEN LeftByStopOrFailure
            ELSE (failed \/ OneFrameSent))
    /\ [][(pc = "data" /\ pc' \notin {"data", "exited"} /\ Continuous /\ layout.fps <= 1000
            /\ ~failed' /\ ~g_stop)
            => pc' = "tick"]_vars
\* a continuous run sent a second frame
C40_SecondFrameSent ==
    /\ Continuous /\ frame_idx = 2 /\ ~failed /\ pc = "tick"

====
